---- MODULE Spec2Model ----
(***************************************************************************)
(* A model of the condition-matcher crate: the type-erased scalar          *)
(* comparison dispatcher, the selector evaluators, the Condition /         *)
(* NestedCondition tree walk, the JSON evaluator and the two matcher       *)
(* wrappers (RuleMatcher, JsonMatcher), the construction of a JsonMatcher  *)
(* from a JSON document, and the batch functions with their parallel       *)
(* versions.                                                               *)
(*                                                                         *)
(* Modelling conventions                                                   *)
(*  - Option<X> is a record: None, or Some(x) = [some |-> TRUE, val |-> x] *)
(*  - a `&dyn Any` scalar is [ty |-> <concrete Rust type>, <payload>];     *)
(*    downcast_ref::<T>() succeeds exactly when ty = T                     *)
(*  - floats (f32, f64 and JSON floats) are fixed-point numbers counted in *)
(*    halves (FloatScale = 2), so every float of the model is exactly      *)
(*    representable in both f32 and f64 and `as f64` is exact              *)
(*  - a char payload is its position in Alphabet                           *)
(*  - the crate is modelled as built without the optional `regex` feature  *)
(*                                                                         *)
(* Specifications                                                          *)
(*  - Spec: a matcher is constructed, grown with add_condition /           *)
(*    add_conditions and asked with matches / evaluate                     *)
(*  - SpecEval: one call of an entry point (test_detailed,                 *)
(*    compare_any_values, compare_json_to_any, JsonEvaluator::evaluate,    *)
(*    get_field_path, from_json, from_value) on arguments drawn from the   *)
(*    inputs, and its return                                               *)
(*  - SpecBatch: one call of a batch function or of MatcherExt::filter /   *)
(*    matches_all; a sequential call returns in one step, a parallel call  *)
(*    runs one                                                             *)
(*    worker step per item of its parallel iterator, in any order, each    *)
(*    filling the buffer of its item, and returns the merged buffers       *)
(***************************************************************************)
EXTENDS Integers, Sequences, FiniteSets, TLC

VARIABLES matcher, out, batch

vars == <<matcher, out, batch>>

(***************************************************************************)
(* Bounds of the model                                                     *)
(***************************************************************************)
\* conditions a RuleMatcher is grown to
MaxConds == 3

\* rules of one JSON group
MaxRules == 2

\* nested child groups of one JSON group
MaxNested == 1

\* the longest slices of records and of matchers given to a batch function
MaxRecords == 2

MaxMatchers == 3

(***************************************************************************)
(* Option                                                                  *)
(***************************************************************************)
None == [some |-> FALSE]

Some(x) == [some |-> TRUE, val |-> x]

(***************************************************************************)
(* condition.rs: ConditionMode, ConditionOperator                          *)
(***************************************************************************)
ConditionMode == {"AND", "OR", "XOR"}

ConditionOperator ==
  {"Equals", "NotEquals", "GreaterThan", "LessThan", "GreaterThanOrEqual",
   "LessThanOrEqual", "Contains", "NotContains", "StartsWith", "EndsWith",
   "Regex", "IsNone", "IsSome", "IsEmpty", "IsNotEmpty"}

RelationalOperators ==
  {"Equals", "NotEquals", "GreaterThan", "LessThan", "GreaterThanOrEqual",
   "LessThanOrEqual"}

(***************************************************************************)
(* Scalars behind `&dyn Any`                                               *)
(***************************************************************************)
SignedKinds == {"i8", "i16", "i32", "i64", "i128", "isize"}

UnsignedKinds == {"u8", "u16", "u32", "u64", "u128", "usize"}

FloatKinds == {"f32", "f64"}

NumericKinds == SignedKinds \cup UnsignedKinds \cup FloatKinds

StringKinds == {"String", "&str"}

FloatScale == 2

Alphabet == "ABCDEFGHIJKLMNOPQRSTUVWXYZabcdefghijklmnopqrstuvwxyz"

\* The payload lives in a field named after its shape (s: text, b: truth
\* value, v: number), so that scalars of different types never share a
\* record shape
DynAny(ty, v) ==
  CASE ty \in StringKinds -> [ty |-> ty, s |-> v]
    [] ty = "bool" -> [ty |-> ty, b |-> v]
    [] OTHER -> [ty |-> ty, v |-> v]

Payload(x) ==
  CASE x.ty \in StringKinds -> x.s
    [] x.ty = "bool" -> x.b
    [] OTHER -> x.v

downcast_ref(x, T) == IF x.ty = T THEN Some(Payload(x)) ELSE None

\* The scalar kind of the closed set of the dispatcher a concrete type
\* belongs to: String and &str are the two carriers of the kind "string".
KindOf(ty) == IF ty \in StringKinds THEN "string" ELSE ty

CharAt(s, i) == SubSeq(s, i, i)

CodeOf(c) == CHOOSE i \in 1..Len(Alphabet) : CharAt(Alphabet, i) = c

\* Display of a float counted in halves: 5.0 prints "5", 85.5 prints "85.5"
float_to_string(h) ==
  LET m == IF h < 0 THEN 0 - h ELSE h
      sign == IF h < 0 THEN "-" ELSE ""
  IN  sign \o ToString(m \div FloatScale)
           \o (IF m % FloatScale = 0 THEN "" ELSE ".5")

\* <T as Display>::to_string for the scalar types try_compare is used at
to_string(T, v) ==
  CASE T \in FloatKinds -> float_to_string(v)
    [] T = "bool" -> IF v THEN "true" ELSE "false"
    [] T = "char" -> CharAt(Alphabet, v)
    [] OTHER -> ToString(v)

\* The position of a payload in the native order of its type (PartialOrd)
OrdKey(T, v) == IF T = "bool" THEN (IF v THEN 1 ELSE 0) ELSE v

(***************************************************************************)
(* Native string operations                                                *)
(***************************************************************************)
str_contains(a, e) ==
  \E i \in 1..(Len(a) + 1) :
     i + Len(e) - 1 <= Len(a) /\ SubSeq(a, i, i + Len(e) - 1) = e

str_starts_with(a, e) == Len(e) <= Len(a) /\ SubSeq(a, 1, Len(e)) = e

str_ends_with(a, e) ==
  Len(e) <= Len(a) /\ SubSeq(a, Len(a) - Len(e) + 1, Len(a)) = e

\* lexicographic byte order of two strings: a < e
str_lt(a, e) ==
  \E i \in 1..(Len(e)) :
     /\ i - 1 <= Len(a)
     /\ SubSeq(a, 1, i - 1) = SubSeq(e, 1, i - 1)
     /\ \/ Len(a) = i - 1
        \/ /\ i <= Len(a)
           /\ CodeOf(CharAt(a, i)) < CodeOf(CharAt(e, i))

(***************************************************************************)
(* evaluators/comparison.rs                                                *)
(***************************************************************************)
\* a comparison that reads any other operator as equality
compare_numeric_permissive(actual, expected, operator) ==
  CASE operator = "Equals" -> actual = expected
    [] operator = "NotEquals" -> actual /= expected
    [] operator = "GreaterThan" -> actual > expected
    [] operator = "LessThan" -> actual < expected
    [] operator = "GreaterThanOrEqual" -> actual >= expected
    [] operator = "LessThanOrEqual" -> actual <= expected
    [] OTHER -> actual = expected

compare_numeric(actual, expected, operator) ==
  CASE operator = "Equals" -> actual = expected
    [] operator = "NotEquals" -> actual /= expected
    [] operator = "GreaterThan" -> actual > expected
    [] operator = "LessThan" -> actual < expected
    [] operator = "GreaterThanOrEqual" -> actual >= expected
    [] operator = "LessThanOrEqual" -> actual <= expected
    [] OTHER -> FALSE

\* a comparison whose >= arm was written as >
native_compare_strict(T, a, e, operator) ==
  compare_numeric(OrdKey(T, a), OrdKey(T, e),
                  IF operator = "GreaterThanOrEqual" THEN "GreaterThan"
                  ELSE operator)

\* the six arms of try_compare's match on two payloads of one type
native_compare(T, a, e, operator) ==
  compare_numeric(OrdKey(T, a), OrdKey(T, e), operator)

try_compare_both(T, a, e, operator) ==
  IF a.some /\ e.some /\ operator \in RelationalOperators
  THEN Some(<<native_compare(T, a.val, e.val, operator),
              Some(to_string(T, a.val)), Some(to_string(T, e.val))>>)
  ELSE None

\* an attempt that accepts an expected integer of any width for an actual
\* integer of type T
try_compare_widening(T, actual, expected, operator) ==
  IF /\ actual.ty = T
     /\ T \in SignedKinds \cup UnsignedKinds
     /\ expected.ty \in SignedKinds \cup UnsignedKinds
     /\ operator \in RelationalOperators
  THEN Some(<<compare_numeric(actual.v, expected.v, operator),
              Some(ToString(actual.v)), Some(ToString(expected.v))>>)
  ELSE try_compare_both(T, downcast_ref(actual, T), downcast_ref(expected, T),
                        operator)

try_compare(T, actual, expected, operator) ==
  try_compare_both(T, downcast_ref(actual, T), downcast_ref(expected, T),
                   operator)

\* downcast_ref::<String>() or else downcast_ref::<&str>()
as_str(x) ==
  LET s == downcast_ref(x, "String")
  IN  IF s.some THEN s ELSE downcast_ref(x, "&str")

StringOperators ==
  {"Equals", "NotEquals", "Contains", "NotContains", "StartsWith",
   "EndsWith", "GreaterThan", "LessThan", "GreaterThanOrEqual",
   "LessThanOrEqual", "IsEmpty", "IsNotEmpty", "Regex"}

\* the arms of the match on two strings; Regex is the arm of a build
\* without the regex feature
string_compare(a, e, operator) ==
  CASE operator = "Equals" -> a = e
    [] operator = "NotEquals" -> a /= e
    [] operator = "Contains" -> str_contains(a, e)
    [] operator = "NotContains" -> ~str_contains(a, e)
    [] operator = "StartsWith" -> str_starts_with(a, e)
    [] operator = "EndsWith" -> str_ends_with(a, e)
    [] operator = "GreaterThan" -> str_lt(e, a)
    [] operator = "LessThan" -> str_lt(a, e)
    [] operator = "GreaterThanOrEqual" -> ~str_lt(a, e)
    [] operator = "LessThanOrEqual" -> ~str_lt(e, a)
    [] operator = "IsEmpty" -> Len(a) = 0
    [] operator = "IsNotEmpty" -> Len(a) /= 0
    [] OTHER -> FALSE

try_compare_strings_both(actual_str, expected_str, operator) ==
  IF actual_str.some /\ expected_str.some /\ operator \in StringOperators
  THEN Some(<<string_compare(actual_str.val, expected_str.val, operator),
              Some(actual_str.val), Some(expected_str.val)>>)
  ELSE None

try_compare_strings(actual, expected, operator) ==
  try_compare_strings_both(as_str(actual), as_str(expected), operator)

\* The order in which compare_any_values tries the concrete types
TryOrder ==
  <<"i8", "i16", "i32", "i64", "i128", "isize",
    "u8", "u16", "u32", "u64", "u128", "usize",
    "f32", "f64", "bool", "string", "char">>

\* the first attempt that returned Some, or the fail-closed default
first_some(attempts) ==
  IF \A i \in 1..Len(attempts) : ~attempts[i].some
  THEN <<FALSE, None, None>>
  ELSE attempts[CHOOSE i \in 1..Len(attempts) :
                  /\ attempts[i].some
                  /\ \A j \in 1..(i - 1) : ~attempts[j].some].val

compare_any_values(actual, expected, operator) ==
  first_some([i \in 1..Len(TryOrder) |->
                IF TryOrder[i] = "string"
                THEN try_compare_strings(actual, expected, operator)
                ELSE try_compare(TryOrder[i], actual, expected, operator)])

(***************************************************************************)
(* matchable.rs: the Matchable capability of a record                      *)
(*                                                                         *)
(* A record value is                                                       *)
(*   [tn |-> type name, fields |-> name -> Option<&dyn Any>,                *)
(*    len |-> Option<usize>, path_impl |-> which get_field_path it has,     *)
(*    sub |-> key -> (name -> Option<&dyn Any>),                            *)
(*    repr |-> the scalar itself when the record is a scalar]               *)
(* fields[n] is None for a declared Option field that currently holds None *)
(***************************************************************************)
NoFields == [n \in {} |-> None]

Struct(tn, fields) ==
  [tn |-> tn, fields |-> fields, len |-> None, path_impl |-> "default",
   sub |-> NoFields, repr |-> None]

\* impl Matchable for &str: get_length = Some(self.len()), no fields
StrRecord(s) ==
  [tn |-> "&str", fields |-> NoFields, len |-> Some(Len(s)),
   path_impl |-> "default", sub |-> NoFields,
   repr |-> Some(DynAny("&str", s))]

type_name(value) == value.tn

get_length(value) == value.len

\* derive(Matchable): a declared field gives Some(&field), an Option field
\* gives field.as_ref(), any other name gives None
get_field(value, field) ==
  IF field \in DOMAIN value.fields THEN value.fields[field] ELSE None

\* Matchable::get_field_path: the trait default returns None; AssetMetrics
\* delegates one-segment paths to get_field; MetricsCache traverses
\* [key, field] and rejects shorter paths
get_field_path(value, path) ==
  CASE value.path_impl = "delegate" ->
         IF Len(path) = 1 THEN get_field(value, path[1]) ELSE None
    [] value.path_impl = "traverse" ->
         IF Len(path) < 2
         THEN None
         ELSE IF path[1] \in DOMAIN value.sub
              THEN IF path[2] \in DOMAIN value.sub[path[1]]
                   THEN value.sub[path[1]][path[2]]
                   ELSE None
              ELSE None
    [] OTHER -> None

(***************************************************************************)
(* error.rs: MatchError                                                    *)
(***************************************************************************)
FieldNotFound(field, tn) ==
  [err |-> "FieldNotFound", field |-> field, type_name |-> tn]

LengthNotSupported(tn) == [err |-> "LengthNotSupported", type_name |-> tn]

EmptyFieldPath == [err |-> "EmptyFieldPath"]

NestedFieldNotFound(path, failed_at) ==
  [err |-> "NestedFieldNotFound", path |-> path, failed_at |-> failed_at]

(***************************************************************************)
(* result.rs: ConditionResult, MatchResult                                 *)
(***************************************************************************)
ConditionResult(passed, description, actual_value, expected_value, error) ==
  [passed |-> passed, description |-> description,
   actual_value |-> actual_value, expected_value |-> expected_value,
   error |-> error]

MatchResult(matched, condition_results, mode) ==
  [matched |-> matched, condition_results |-> condition_results,
   mode |-> mode]

(***************************************************************************)
(* evaluators/*.rs                                                         *)
(***************************************************************************)
\* `let (passed, actual_str, expected_str) = compare_any_values(..)` put
\* into a ConditionResult without error
compared_result(cmp, description) ==
  ConditionResult(cmp[1], description, cmp[2], cmp[3], None)

\* a lookup that treats an absent value as satisfying IsNone
field_result_is_none_passes(value, field, found, expected, operator, description) ==
  IF found.some
  THEN compared_result(compare_any_values(found.val, expected, operator),
                       description)
  ELSE IF operator = "IsNone"
  THEN ConditionResult(TRUE, description, None, None, None)
  ELSE ConditionResult(FALSE, description, None, None,
                       Some(FieldNotFound(field, type_name(value))))

field_result(value, field, found, expected, operator, description) ==
  IF found.some
  THEN compared_result(compare_any_values(found.val, expected, operator),
                       description)
  ELSE ConditionResult(FALSE, description, None, None,
                       Some(FieldNotFound(field, type_name(value))))

FieldEvaluator_evaluate(value, field, expected, operator) ==
  field_result(value, field, get_field(value, field), expected, operator,
               "field '" \o field \o "' " \o operator)

\* a result that leaves out the expected length when there is no length
length_result_no_expected(value, found, expected, operator, description) ==
  IF found.some
  THEN ConditionResult(compare_numeric(found.val, expected, operator),
                       description, Some(ToString(found.val)),
                       Some(ToString(expected)), None)
  ELSE ConditionResult(FALSE, description, None, None,
                       Some(LengthNotSupported(type_name(value))))

length_result(value, found, expected, operator, description) ==
  IF found.some
  THEN ConditionResult(compare_numeric(found.val, expected, operator),
                       description, Some(ToString(found.val)),
                       Some(ToString(expected)), None)
  ELSE ConditionResult(FALSE, description, None, Some(ToString(expected)),
                       Some(LengthNotSupported(type_name(value))))

LengthEvaluator_evaluate(value, expected, operator) ==
  length_result(value, get_length(value), expected, operator,
                "length " \o operator \o " " \o ToString(expected))

type_compare(actual_type, expected_type, operator) ==
  CASE operator = "Equals" -> actual_type = expected_type
    [] operator = "NotEquals" -> actual_type /= expected_type
    [] operator = "Contains" -> str_contains(actual_type, expected_type)
    [] OTHER -> FALSE

TypeEvaluator_evaluate(value, expected_type, operator) ==
  ConditionResult(type_compare(type_name(value), expected_type, operator),
                  "type " \o operator \o " " \o expected_type,
                  Some(type_name(value)), Some(expected_type), None)

ValueEvaluator_evaluate(value, expected, operator) ==
  LET passed == CASE operator = "Equals" -> value = expected
                  [] operator = "NotEquals" -> value /= expected
                  [] OTHER -> FALSE
  IN  ConditionResult(passed, "value " \o operator, None, None, None)

\* {:?} of a &[&str]: ["a", "b"]
RECURSIVE debug_list(_)
debug_list(path) ==
  IF Len(path) = 0
  THEN ""
  ELSE "\"" \o Head(path) \o "\""
       \o (IF Len(path) > 1 THEN ", " ELSE "") \o debug_list(Tail(path))

debug_path(path) == "[" \o debug_list(path) \o "]"

\* a resolution that falls back to the first segment of a longer path too
resolve_path_any_length(via_path, via_field, path) ==
  IF via_path.some THEN via_path
  ELSE IF via_field.some THEN via_field ELSE None

\* the value a non-empty path resolves to: get_field_path first, then
\* get_field on the only segment of a one-segment path
resolve_path(via_path, via_field, path) ==
  IF via_path.some THEN via_path
  ELSE IF via_field.some /\ Len(path) = 1 THEN via_field ELSE None

path_result(actual, path, expected, operator, description) ==
  IF actual.some
  THEN compared_result(compare_any_values(actual.val, expected, operator),
                       description)
  ELSE ConditionResult(FALSE, description, None, None,
                       Some(NestedFieldNotFound(path, path[1])))

PathEvaluator_evaluate(value, path, expected, operator) ==
  IF Len(path) = 0
  THEN ConditionResult(FALSE, "field path", None, None, Some(EmptyFieldPath))
  ELSE path_result(resolve_path(get_field_path(value, path),
                                get_field(value, path[1]), path),
                   path, expected, operator,
                   "field path '" \o debug_path(path) \o "' " \o operator)

(***************************************************************************)
(* condition.rs: Condition, ConditionSelector, NestedCondition             *)
(***************************************************************************)
Condition(selector, operator) == [operator |-> operator, selector |-> selector]

SelLength(n) == [sel |-> "Length", length |-> n]

SelType(tn) == [sel |-> "Type", type_name |-> tn]

SelValue(expected) == [sel |-> "Value", value |-> expected]

SelFieldValue(field, expected) ==
  [sel |-> "FieldValue", field |-> field, expected |-> expected]

SelFieldPath(path, expected) ==
  [sel |-> "FieldPath", path |-> path, expected |-> expected]

SelNot(inner) == [sel |-> "Not", inner |-> inner]

SelNested(group) == [sel |-> "Nested", group |-> group]

NestedCondition(mode, rules, nested) ==
  [mode |-> mode, rules |-> rules, nested |-> nested]

\* Iterator::all, Iterator::any and filter(..).count() over the passed flags
RECURSIVE iter_all(_)
iter_all(flags) ==
  IF Len(flags) = 0 THEN TRUE
  ELSE IF ~Head(flags) THEN FALSE ELSE iter_all(Tail(flags))

RECURSIVE iter_any(_)
iter_any(flags) ==
  IF Len(flags) = 0 THEN FALSE
  ELSE IF Head(flags) THEN TRUE ELSE iter_any(Tail(flags))

RECURSIVE filter_count(_)
filter_count(flags) ==
  IF Len(flags) = 0 THEN 0
  ELSE (IF Head(flags) THEN 1 ELSE 0) + filter_count(Tail(flags))

PassedFlags(results) == [i \in 1..Len(results) |-> results[i].passed]

\* a Not arm that clears the error of the inner result
negated_masking_error(result) ==
  [result EXCEPT !.passed = ~result.passed,
                 !.description = "NOT(" \o result.description \o ")",
                 !.error = None]

\* a Not arm that builds a fresh result and leaves the display strings out
negated_dropping_values(result) ==
  ConditionResult(~result.passed, "NOT(" \o result.description \o ")",
                  None, None, result.error)

\* the Not arm: the inner result with passed inverted and the description
\* wrapped, everything else as it was
negated(result) ==
  [result EXCEPT !.passed = ~result.passed,
                 !.description = "NOT(" \o result.description \o ")"]

\* the match on group.mode over the collected results
fold_by_mode(flags, mode) ==
  CASE mode = "AND" -> iter_all(flags)
    [] mode = "OR" -> iter_any(flags)
    [] mode = "XOR" -> filter_count(flags) = 1

group_result(group, results) ==
  ConditionResult(fold_by_mode(PassedFlags(results), group.mode),
                  group.mode \o " group (" \o ToString(Len(group.rules))
                    \o " rules, " \o ToString(Len(group.nested))
                    \o " nested)",
                  None, None, None)

RECURSIVE test_detailed(_, _), evaluate_nested(_, _)
test_detailed(self, value) ==
  CASE self.selector.sel = "Length" ->
         LengthEvaluator_evaluate(value, self.selector.length, self.operator)
    [] self.selector.sel = "Type" ->
         TypeEvaluator_evaluate(value, self.selector.type_name, self.operator)
    [] self.selector.sel = "Value" ->
         ValueEvaluator_evaluate(value, self.selector.value, self.operator)
    [] self.selector.sel = "FieldValue" ->
         FieldEvaluator_evaluate(value, self.selector.field,
                                 self.selector.expected, self.operator)
    [] self.selector.sel = "FieldPath" ->
         PathEvaluator_evaluate(value, self.selector.path,
                                self.selector.expected, self.operator)
    [] self.selector.sel = "Not" ->
         negated(test_detailed(self.selector.inner, value))
    [] self.selector.sel = "Nested" ->
         evaluate_nested(value, self.selector.group)

\* a walk that forgets the nested child groups
evaluate_nested_rules_only(value, group) ==
  group_result(group,
    [i \in 1..Len(group.rules) |-> test_detailed(group.rules[i], value)])

evaluate_nested(value, group) ==
  group_result(group,
    [i \in 1..Len(group.rules) |-> test_detailed(group.rules[i], value)]
    \o [i \in 1..Len(group.nested) |->
          evaluate_nested(value, group.nested[i])])

\* Predicate::test
test(self, value) == test_detailed(self, value).passed

(***************************************************************************)
(* matchers/rule.rs: RuleMatcher                                           *)
(***************************************************************************)
\* a fold with the AND and OR arms exchanged
combine_results_swapped(results, mode) ==
  CASE mode = "AND" -> iter_any(results)
    [] mode = "OR" -> iter_all(results)
    [] mode = "XOR" -> filter_count(results) = 1

combine_results(results, mode) ==
  CASE mode = "AND" -> iter_all(results)
    [] mode = "OR" -> iter_any(results)
    [] mode = "XOR" -> filter_count(results) = 1

\* A RuleMatcher<T>: T is the static record type the conditions are typed at
RuleMatcher_new(T, mode) ==
  [kind |-> "rule", T |-> T, mode |-> mode, conditions |-> <<>>]

RuleMatcher_matches(self, value) ==
  combine_results([i \in 1..Len(self.conditions) |->
                     test(self.conditions[i], value)],
                  self.mode)

\* a result whose verdict is the OR fold whatever the mode
match_result_any(condition_results, mode) ==
  MatchResult(iter_any(PassedFlags(condition_results)),
              condition_results, mode)

match_result(condition_results, mode) ==
  MatchResult(combine_results(PassedFlags(condition_results), mode),
              condition_results, mode)

\* an evaluate that stops an AND matcher at its first failed condition
RuleMatcher_evaluate_short_circuit(self, value) ==
  LET all == [i \in 1..Len(self.conditions) |->
                test_detailed(self.conditions[i], value)]
      failed == {i \in 1..Len(all) : ~all[i].passed}
      last == IF self.mode = "AND" /\ failed /= {}
              THEN CHOOSE i \in failed : \A j \in failed : i <= j
              ELSE Len(all)
  IN  match_result(SubSeq(all, 1, last), self.mode)

RuleMatcher_evaluate(self, value) ==
  match_result([i \in 1..Len(self.conditions) |->
                  test_detailed(self.conditions[i], value)],
               self.mode)

(***************************************************************************)
(* serde_json::Value as far as the evaluator looks at it                   *)
(***************************************************************************)
JBool(b) == [jt |-> "bool", b |-> b]

\* a JSON number written without a fraction (Number::PosInt / NegInt)
JInt(n) == [jt |-> "number", repr |-> "int", v |-> n]

\* a JSON number with a fraction (Number::Float), counted in halves
JFloat(h) == [jt |-> "number", repr |-> "float", v |-> h]

JString(s) == [jt |-> "string", s |-> s]

\* Value::as_f64: every Number converts, nothing else does
as_f64(j) ==
  IF j.jt = "number"
  THEN Some(IF j.repr = "int" THEN j.v * FloatScale ELSE j.v)
  ELSE None

json_as_str(j) == IF j.jt = "string" THEN Some(j.s) ELSE None

as_bool(j) == IF j.jt = "bool" THEN Some(j.b) ELSE None

(***************************************************************************)
(* condition.rs: JsonCondition, JsonNestedCondition                        *)
(***************************************************************************)
JsonCondition(field, operator, value) ==
  [field |-> field, operator |-> operator, value |-> value]

JsonNestedCondition(mode, rules, nested) ==
  [mode |-> mode, rules |-> rules, nested |-> nested]

(***************************************************************************)
(* evaluators/json.rs                                                      *)
(***************************************************************************)
\* The concrete types extract_as_f64 downcasts to, in its order
WidenOrder ==
  <<"f64", "f32", "i64", "i32", "i16", "i8",
    "u64", "u32", "u16", "u8", "isize", "usize">>

\* `*v as f64` in halves: a float keeps its payload, an integer is scaled
widen(T, v) == IF T \in FloatKinds THEN v ELSE v * FloatScale

extract_as_f64(actual) ==
  IF \A i \in 1..Len(WidenOrder) : actual.ty /= WidenOrder[i]
  THEN None
  ELSE Some(widen(actual.ty, Payload(actual)))

\* f64::EPSILON (2.2e-16) lies strictly between 0 and one half, the grain of
\* the model's floats: |d| < EPSILON holds exactly when |d| < 1 grain
EpsilonGrain == 1

f64_abs(d) == IF d < 0 THEN 0 - d ELSE d

json_numeric_compare(a, e, operator) ==
  CASE operator = "Equals" -> f64_abs(a - e) < EpsilonGrain
    [] operator = "NotEquals" -> f64_abs(a - e) >= EpsilonGrain
    [] operator = "GreaterThan" -> a > e
    [] operator = "LessThan" -> a < e
    [] operator = "GreaterThanOrEqual" -> a >= e
    [] operator = "LessThanOrEqual" -> a <= e
    [] OTHER -> FALSE

\* a bool comparison that also orders the two bools
json_bool_compare_ordered(a, e, operator) ==
  CASE operator = "Equals" -> a = e
    [] operator = "NotEquals" -> a /= e
    [] operator = "GreaterThanOrEqual" -> a \/ ~e
    [] operator = "LessThanOrEqual" -> ~a \/ e
    [] OTHER -> FALSE

json_bool_compare(a, e, operator) ==
  CASE operator = "Equals" -> a = e
    [] operator = "NotEquals" -> a /= e
    [] OTHER -> FALSE

compare_json_by_kind(exp_f64, act_f64, exp_str, act_str, exp_bool, act_bool, operator) ==
  IF exp_f64.some /\ act_f64.some
  THEN <<json_numeric_compare(act_f64.val, exp_f64.val, operator),
         Some(float_to_string(act_f64.val)),
         Some(float_to_string(exp_f64.val))>>
  ELSE IF exp_str.some /\ act_str.some
  THEN <<string_compare(act_str.val, exp_str.val, operator),
         Some(act_str.val), Some(exp_str.val)>>
  ELSE IF exp_bool.some /\ act_bool.some
  THEN <<json_bool_compare(act_bool.val, exp_bool.val, operator),
         Some(to_string("bool", act_bool.val)),
         Some(to_string("bool", exp_bool.val))>>
  ELSE <<FALSE, None, None>>

compare_json_to_any(actual, expected, operator) ==
  compare_json_by_kind(as_f64(expected), extract_as_f64(actual),
                       json_as_str(expected), as_str(actual),
                       as_bool(expected), downcast_ref(actual, "bool"),
                       operator)

\* str::split('.'): the segments between the dots, at least one
RECURSIVE split_from(_, _, _)
split_from(s, i, cur) ==
  IF i > Len(s)
  THEN <<cur>>
  ELSE IF CharAt(s, i) = "."
       THEN <<cur>> \o split_from(s, i + 1, "")
       ELSE split_from(s, i + 1, cur \o CharAt(s, i))

split_dots(s) == split_from(s, 1, "")

JsonConditionResult(passed, field, operator, expected, actual, error) ==
  [passed |-> passed, field |-> field, operator |-> operator,
   expected |-> expected, actual |-> actual, error |-> error]

JsonEvalResult(matched, details) == [matched |-> matched, details |-> details]

\* the display string re-read as a JSON string literal; no string of the
\* model holds a quote, a backslash or a control character, so the first
\* parse always succeeds and the f64 fallback is never taken
actual_as_json(actual_str) ==
  IF actual_str.some THEN Some(JString(actual_str.val)) ELSE None

found_result(rule, cmp) ==
  JsonConditionResult(cmp[1], rule.field, rule.operator, rule.value,
                      actual_as_json(cmp[2]), None)

rule_result(rule, actual_value) ==
  IF actual_value.some
  THEN found_result(rule, compare_json_to_any(actual_value.val, rule.value,
                                              rule.operator))
  ELSE JsonConditionResult(FALSE, rule.field, rule.operator, rule.value, None,
                           Some("Field '" \o rule.field \o "' not found"))

\* a lookup that falls back to get_field on the first segment
resolve_segments_with_fallback(value, field, path_segments) ==
  IF Len(path_segments) = 1
  THEN get_field(value, field)
  ELSE IF get_field_path(value, path_segments).some
       THEN get_field_path(value, path_segments)
       ELSE get_field(value, path_segments[1])

resolve_segments(value, field, path_segments) ==
  IF Len(path_segments) = 1
  THEN get_field(value, field)
  ELSE get_field_path(value, path_segments)

evaluate_rule(rule, value) ==
  rule_result(rule, resolve_segments(value, rule.field, split_dots(rule.field)))

\* a fold whose XOR arm accepts any number of true results above zero
json_combine_results_xor_any(results, mode) ==
  CASE mode = "AND" -> iter_all(results)
    [] mode = "OR" -> iter_any(results)
    [] mode = "XOR" -> filter_count(results) >= 1

json_combine_results(results, mode) ==
  CASE mode = "AND" -> iter_all(results)
    [] mode = "OR" -> iter_any(results)
    [] mode = "XOR" -> filter_count(results) = 1

\* evaluate_recursive pushes every rule result on the shared `details`
\* vector, recurses into the nested groups with the same vector, and returns
\* the verdict with a clone of the vector as it is at that moment
eval_result(after, mode) ==
  JsonEvalResult(json_combine_results(after.flags, mode), after.details)

RECURSIVE evaluate_recursive(_, _, _), evaluate_nested_loop(_, _, _, _),
          evaluate_rules_then_nested(_, _, _, _)
evaluate_recursive(group, value, details) ==
  evaluate_rules_then_nested(group, value, details,
    [i \in 1..Len(group.rules) |-> evaluate_rule(group.rules[i], value)])

evaluate_rules_then_nested(group, value, details, rule_results) ==
  eval_result(evaluate_nested_loop(group.nested, value,
                                   PassedFlags(rule_results),
                                   details \o rule_results),
              group.mode)

nested_step(rest, value, flags, nested_result) ==
  evaluate_nested_loop(rest, value, Append(flags, nested_result.matched),
                       nested_result.details)

evaluate_nested_loop(nested, value, flags, details) ==
  IF Len(nested) = 0
  THEN [flags |-> flags, details |-> details]
  ELSE nested_step(Tail(nested), value, flags,
                   evaluate_recursive(Head(nested), value, details))

JsonEvaluator_evaluate(condition, value) ==
  evaluate_recursive(condition, value, <<>>)

(***************************************************************************)
(* matchers/json.rs: JsonMatcher                                           *)
(***************************************************************************)
JsonMatcher_from_condition(condition) ==
  [kind |-> "json", condition |-> condition]

JsonMatcher_matches(self, value) ==
  JsonEvaluator_evaluate(self.condition, value).matched

JsonMatcher_evaluate(self, value) ==
  JsonEvaluator_evaluate(self.condition, value)

(***************************************************************************)
(* traits.rs: Matcher<T> and Evaluate<T>, implemented by both matchers     *)
(***************************************************************************)
MatchesOf(m, value) ==
  IF m.kind = "rule"
  THEN RuleMatcher_matches(m, value)
  ELSE JsonMatcher_matches(m, value)

EvaluateOf(m, value) ==
  IF m.kind = "rule"
  THEN RuleMatcher_evaluate(m, value)
  ELSE JsonMatcher_evaluate(m, value)

(***************************************************************************)
(* batch.rs: the sequential functions                                      *)
(***************************************************************************)
\* the concatenation of a sequence of sequences
RECURSIVE flatten(_)
flatten(seqs) ==
  IF Len(seqs) = 0 THEN <<>> ELSE Head(seqs) \o flatten(Tail(seqs))

\* enumerate().filter(|(_, m)| m.matches(value)).map(|(i, _)| i): the
\* indices, counted from 0, of the matchers that match
matching_indices(value, matchers) ==
  SelectSeq([j \in 1..Len(matchers) |-> j - 1],
            LAMBDA j : MatchesOf(matchers[j + 1], value))

\* a filter that keeps the matchers that do not match
matching_rejected(value, matchers) ==
  SelectSeq(matchers, LAMBDA m : ~MatchesOf(m, value))

\* matchers.iter().filter(|m| m.matches(value)).collect()
matching(value, matchers) ==
  SelectSeq(matchers, LAMBDA m : MatchesOf(m, value))

\* matchers.iter().filter(|m| m.matches(value)).count()
count_matching(value, matchers) ==
  Cardinality({j \in 1..Len(matchers) : MatchesOf(matchers[j], value)})

any_matches(value, matchers) ==
  \E j \in 1..Len(matchers) : MatchesOf(matchers[j], value)

all_match(value, matchers) ==
  \A j \in 1..Len(matchers) : MatchesOf(matchers[j], value)

\* a row in which the matchers are visited from the last to the first
row_pairs_descending(v_idx, value, matchers) ==
  [k \in 1..Len(matching_indices(value, matchers)) |->
     <<v_idx,
       matching_indices(value, matchers)[
         Len(matching_indices(value, matchers)) + 1 - k]>>]

\* the pairs (v_idx, m_idx) one value contributes, by ascending m_idx
row_pairs(v_idx, value, matchers) ==
  [k \in 1..Len(matching_indices(value, matchers)) |->
     <<v_idx, matching_indices(value, matchers)[k]>>]

evaluate_matrix(values, matchers) ==
  flatten([i \in 1..Len(values) |-> row_pairs(i - 1, values[i], matchers)])

\* a search that keeps the last matcher that matches
first_matching_last(values, matchers) ==
  flatten([i \in 1..Len(values) |->
             IF any_matches(values[i], matchers)
             THEN <<<<i - 1,
                      matching_indices(values[i], matchers)[
                        Len(matching_indices(values[i], matchers))]>>>>
             ELSE <<>>])

\* filter_map over the enumerated values: the first matcher that find()
\* meets, nothing for a value no matcher matches
first_matching(values, matchers) ==
  flatten([i \in 1..Len(values) |->
             IF any_matches(values[i], matchers)
             THEN <<<<i - 1, Head(matching_indices(values[i], matchers))>>>>
             ELSE <<>>])

\* a matrix with one row per matcher
evaluate_matrix_full_transposed(values, matchers) ==
  [j \in 1..Len(matchers) |->
     [i \in 1..Len(values) |-> MatchesOf(matchers[j], values[i])]]

evaluate_matrix_full(values, matchers) ==
  [i \in 1..Len(values) |->
     [j \in 1..Len(matchers) |-> MatchesOf(matchers[j], values[i])]]

(***************************************************************************)
(* traits.rs, MatcherExt: filter and matches_all                           *)
(***************************************************************************)
\* a filter that stops at the first value that does not match
filter_take_while(self, values) ==
  SubSeq(values, 1,
         Cardinality({i \in 1..Len(values) :
                        \A k \in 1..i : MatchesOf(self, values[k])}))

\* values.iter().filter(|v| self.matches(v)).collect()
filter(self, values) == SelectSeq(values, LAMBDA v : MatchesOf(self, v))

\* values.iter().map(|v| self.matches(v)).collect()
matches_all(self, values) ==
  [i \in 1..Len(values) |-> MatchesOf(self, values[i])]

(***************************************************************************)
(* batch.rs, mod parallel: the rayon versions                              *)
(***************************************************************************)
ParallelFns ==
  {"parallel::evaluate_matrix", "parallel::evaluate_matrix_full",
   "parallel::matching_indices", "parallel::any_matches",
   "parallel::all_match"}

\* the slice whose par_iter() the function fans out over
par_axis(fn) ==
  CASE fn \in {"parallel::evaluate_matrix", "parallel::evaluate_matrix_full"}
         -> "values"
    [] fn \in {"parallel::matching_indices", "parallel::any_matches",
               "parallel::all_match"} -> "matchers"
    [] OTHER -> "none"

\* the number of items of that parallel iterator
par_items(fn, args) ==
  IF par_axis(fn) = "values" THEN Len(args.values) ELSE Len(args.matchers)

\* what the closure given to the parallel iterator yields for item i
par_task(fn, args, i) ==
  CASE fn = "parallel::evaluate_matrix" ->
         row_pairs(i - 1, args.values[i], args.matchers)
    [] fn = "parallel::evaluate_matrix_full" ->
         [j \in 1..Len(args.matchers) |->
            MatchesOf(args.matchers[j], args.values[i])]
    [] fn = "parallel::matching_indices" ->
         IF MatchesOf(args.matchers[i], args.value) THEN <<i - 1>> ELSE <<>>
    [] OTHER -> MatchesOf(args.matchers[i], args.value)

\* any() and all() stop at the first item that decides them; collect()
\* waits for every item
par_may_finish(fn, n, buffers) ==
  \/ DOMAIN buffers = 1..n
  \/ fn = "parallel::any_matches" /\ \E i \in DOMAIN buffers : buffers[i]
  \/ fn = "parallel::all_match" /\ \E i \in DOMAIN buffers : ~buffers[i]

\* a consumer that loses the buffer of the last item
par_collect_dropping_last(fn, n, buffers) ==
  CASE fn = "parallel::evaluate_matrix_full" -> [i \in 1..n |-> buffers[i]]
    [] fn = "parallel::any_matches" -> \E i \in DOMAIN buffers : buffers[i]
    [] fn = "parallel::all_match" -> \A i \in DOMAIN buffers : buffers[i]
    [] OTHER -> flatten([i \in 1..(n - 1) |-> buffers[i]])

\* the consumer: collect() keeps the items in index order
par_collect(fn, n, buffers) ==
  CASE fn = "parallel::evaluate_matrix_full" -> [i \in 1..n |-> buffers[i]]
    [] fn = "parallel::any_matches" -> \E i \in DOMAIN buffers : buffers[i]
    [] fn = "parallel::all_match" -> \A i \in DOMAIN buffers : buffers[i]
    [] OTHER -> flatten([i \in 1..n |-> buffers[i]])

(***************************************************************************)
(* Deserialization: serde derives of condition.rs, JsonMatcher::from_json  *)
(***************************************************************************)
\* A document is JSON text that serde_json either rejects or parses to a
\* value.  An object on the wire is kept by its members: a member that the
\* object does not have is None.
WireRule(field, operator, value) ==
  [wfield |-> field, woperator |-> operator, wvalue |-> value]

WireGroup(mode, rules, nested) ==
  [wt |-> "object", wmode |-> mode, wrules |-> rules, wnested |-> nested]

DeOk(x) == [ok |-> TRUE, val |-> x]

DeErr(category) == [ok |-> FALSE, error |-> category]

\* #[serde(rename_all = "snake_case")] on ConditionOperator
WireOperator ==
  [equals |-> "Equals", not_equals |-> "NotEquals",
   greater_than |-> "GreaterThan", less_than |-> "LessThan",
   greater_than_or_equal |-> "GreaterThanOrEqual",
   less_than_or_equal |-> "LessThanOrEqual", contains |-> "Contains",
   not_contains |-> "NotContains", starts_with |-> "StartsWith",
   ends_with |-> "EndsWith", regex |-> "Regex", is_none |-> "IsNone",
   is_some |-> "IsSome", is_empty |-> "IsEmpty",
   is_not_empty |-> "IsNotEmpty"]

deserialize_operator(w) ==
  IF w.jt /= "string"
  THEN DeErr("invalid type")
  ELSE IF w.s \in DOMAIN WireOperator
       THEN DeOk(WireOperator[w.s])
       ELSE DeErr("unknown variant")

\* a deserializer that reads an operator it does not know as equals
deserialize_rule_lenient(w) ==
  IF ~w.wfield.some \/ ~w.woperator.some
  THEN DeErr("missing field")
  ELSE DeOk(JsonCondition(w.wfield.val,
                          IF deserialize_operator(w.woperator.val).ok
                          THEN deserialize_operator(w.woperator.val).val
                          ELSE "Equals",
                          w.wvalue))

\* JsonCondition: field and operator have no default
deserialize_rule(w) ==
  IF ~w.wfield.some \/ ~w.woperator.some
  THEN DeErr("missing field")
  ELSE IF deserialize_operator(w.woperator.val).ok
       THEN DeOk(JsonCondition(w.wfield.val,
                               deserialize_operator(w.woperator.val).val,
                               w.wvalue))
       ELSE deserialize_operator(w.woperator.val)

\* ConditionMode has no rename: the variant names are the wire names;
\* #[serde(default)] gives AND when the member is absent
deserialize_mode(w) ==
  IF ~w.some
  THEN DeOk("AND")
  ELSE IF w.val \in ConditionMode
       THEN DeOk(w.val)
       ELSE DeErr("unknown variant")

\* Vec<_>: the elements in order, the first error ends it
collect_elements(results) ==
  IF \E i \in 1..Len(results) : ~results[i].ok
  THEN results[CHOOSE i \in 1..Len(results) :
                 /\ ~results[i].ok
                 /\ \A j \in 1..(i - 1) : results[j].ok]
  ELSE DeOk([i \in 1..Len(results) |-> results[i].val])

\* #[serde(default)] gives the empty Vec when the member is absent
deserialize_rules(w) ==
  IF ~w.some
  THEN DeOk(<<>>)
  ELSE collect_elements([i \in 1..Len(w.val) |-> deserialize_rule(w.val[i])])

group_from_members(mode, rules, nested) ==
  IF ~mode.ok
  THEN mode
  ELSE IF ~rules.ok
       THEN rules
       ELSE IF ~nested.ok
            THEN nested
            ELSE DeOk(JsonNestedCondition(mode.val, rules.val, nested.val))

RECURSIVE deserialize_group(_), deserialize_nested(_)
deserialize_nested(w) ==
  IF ~w.some
  THEN DeOk(<<>>)
  ELSE collect_elements([i \in 1..Len(w.val) |-> deserialize_group(w.val[i])])

deserialize_group(w) ==
  IF w.wt /= "object"
  THEN DeErr("invalid type")
  ELSE group_from_members(deserialize_mode(w.wmode),
                          deserialize_rules(w.wrules),
                          deserialize_nested(w.wnested))

matcher_or_error(condition) ==
  IF condition.ok
  THEN [ok |-> TRUE, matcher |-> JsonMatcher_from_condition(condition.val)]
  ELSE condition

JsonMatcher_from_value(value) == matcher_or_error(deserialize_group(value))

\* serde_json::from_str: a syntax error, or the parsed value deserialized
JsonMatcher_from_json(json) ==
  IF json.syntax = "ok"
  THEN matcher_or_error(deserialize_group(json.parsed))
  ELSE DeErr("syntax")

(***************************************************************************)
(* The inputs the operations are exercised with                            *)
(***************************************************************************)
\* sequences over S of length 0..n
SeqsUpTo(S, n) == UNION {[1..k -> S] : k \in 0..n}

PayloadsOf(K) ==
  CASE K \in SignedKinds -> {0 - 1, 5, 30}
    [] K \in UnsignedKinds -> {5, 18, 30}
    [] K \in FloatKinds -> {10, 36, 171}
    [] K = "bool" -> {TRUE, FALSE}
    [] K \in StringKinds -> {"", "Ali", "Alice"}
    [] K = "char" -> {27, 28}

ScalarTypes == NumericKinds \cup {"bool", "char"} \cup StringKinds

Scalars == UNION {{DynAny(K, v) : v \in PayloadsOf(K)} : K \in ScalarTypes}

JsonValues ==
  {[jt |-> "null"], JBool(TRUE), JBool(FALSE), JInt(5), JInt(18),
   JInt(0 - 1), JFloat(10), JFloat(171), JString("Ali"), JString(""),
   [jt |-> "array"], [jt |-> "object"]}

\* #[derive(Matchable)] struct User { name: String, age: u32,
\*                                    nickname: Option<String> }
User(name, age, nickname) ==
  Struct("User", [name |-> Some(DynAny("String", name)),
                  age |-> Some(DynAny("u32", age)),
                  nickname |-> nickname])

Alice == User("Alice", 30, Some(DynAny("String", "Ali")))

Bob == User("Bob", 17, None)

\* #[derive(Matchable)] struct Sample { x: K }, one type for each scalar K
Sample(K, v) == Struct("Sample<" \o K \o ">", [x |-> Some(DynAny(K, v))])

\* examples/parallel_asset_watchers.rs: a hand-written impl whose
\* get_field_path delegates one-segment paths to get_field
AssetMetrics(price, pct) ==
  [tn |-> "AssetMetrics",
   fields |-> [current_price |-> Some(DynAny("f64", price)),
               pct_change_24h |-> pct],
   len |-> None, path_impl |-> "delegate", sub |-> NoFields, repr |-> None]

\* examples/json_complex_matching.rs: a cache keyed by asset whose
\* get_field is always None and whose get_field_path takes [asset, field]
MetricsCache(price) ==
  [tn |-> "MetricsCache", fields |-> NoFields, len |-> None,
   path_impl |-> "traverse",
   sub |-> [BTC |-> [current_price |-> Some(DynAny("f64", price))]],
   repr |-> None]

\* impl_matchable_primitive!(i32): every capability is the trait default
PrimI32(n) ==
  [tn |-> "i32", fields |-> NoFields, len |-> None, path_impl |-> "default",
   sub |-> NoFields, repr |-> Some(DynAny("i32", n))]

SampleTypes == {"Sample<" \o K \o ">" : K \in ScalarTypes}

RecordsOf(T) ==
  CASE T = "User" -> {Alice, Bob}
    [] T = "&str" -> {StrRecord("test"), StrRecord("hello")}
    [] T = "i32" -> {PrimI32(42), PrimI32(41)}
    [] T = "AssetMetrics" ->
         {AssetMetrics(10, Some(DynAny("f64", 36))), AssetMetrics(171, None)}
    [] T = "MetricsCache" -> {MetricsCache(10)}
    [] OTHER ->
         UNION {{Sample(K, v) : v \in PayloadsOf(K)} :
                  K \in {k \in ScalarTypes : T = "Sample<" \o k \o ">"}}

RecordTypes ==
  {"User", "&str", "i32", "AssetMetrics", "MetricsCache"} \cup SampleTypes

(***************************************************************************)
(* Conditions a RuleMatcher<T> is grown from                               *)
(***************************************************************************)
AgeGte18 ==
  Condition(SelFieldValue("age", DynAny("u32", 18)), "GreaterThanOrEqual")

AgeLt18 == Condition(SelFieldValue("age", DynAny("u32", 18)), "LessThan")

Nonexistent ==
  Condition(SelFieldValue("nonexistent", DynAny("&str", "value")), "Equals")

GroupXor0 == NestedCondition("XOR", <<>>, <<>>)

GroupOr2 ==
  NestedCondition("OR",
                  <<AgeLt18,
                    Condition(SelFieldValue("name", DynAny("&str", "lic")),
                              "Contains")>>,
                  <<>>)

\* an AND group holding an empty AND group and an XOR group of two levels
GroupAnd3 ==
  NestedCondition(
    "AND", <<AgeLt18>>,
    <<NestedCondition("AND", <<>>, <<>>),
      NestedCondition(
        "XOR",
        <<AgeGte18,
          Condition(SelFieldValue("nickname", DynAny("&str", "Ali")),
                    "Equals")>>,
        <<GroupOr2>>)>>)

GroupOr3 ==
  NestedCondition("OR",
                  <<Nonexistent, Condition(SelNested(GroupOr2), "Equals")>>,
                  <<GroupXor0, NestedCondition("OR", <<>>, <<>>)>>)

CondPool(T) ==
  CASE T = "User" ->
         {AgeGte18,
          Condition(SelNot(Nonexistent), "Equals"),
          Condition(SelNested(GroupAnd3), "Equals"),
          Condition(SelNested(GroupOr3), "Equals")}
    [] T = "&str" ->
         {Condition(SelLength(5), "GreaterThanOrEqual"),
          Condition(SelLength(4), "Equals"),
          Condition(SelValue(StrRecord("hello")), "Equals")}
    [] OTHER -> {}

(***************************************************************************)
(* JSON groups a JsonMatcher is built from                                 *)
(***************************************************************************)
\* groups of up to MaxRules rules and MaxNested children; the children are
\* an empty AND, an empty OR, and an XOR of two rules
JsonGroups ==
  {JsonNestedCondition(m, r, n) :
     m \in ConditionMode,
     r \in SeqsUpTo({JsonCondition("age", "GreaterThanOrEqual", JInt(18)),
                     JsonCondition("nonexistent", "Equals", JInt(5)),
                     JsonCondition("nickname", "Equals", JString("Ali"))},
                    MaxRules),
     n \in SeqsUpTo(
             {JsonNestedCondition("AND", <<>>, <<>>),
              JsonNestedCondition("OR", <<>>, <<>>),
              JsonNestedCondition(
                "XOR",
                <<JsonCondition("age", "GreaterThanOrEqual", JInt(18)),
                  JsonCondition("name", "Contains", JString("lic"))>>,
                <<>>)},
             MaxNested)}

(***************************************************************************)
(* The matcher objects: construction, growth and evaluation                *)
(***************************************************************************)
\* no parallel call is in flight: no worker has a buffer
NoBatch == [axis |-> "none", buffers |-> <<>>]

\* RuleMatcher::new(mode) / JsonMatcher::from_condition(condition)
Init ==
  /\ matcher \in {RuleMatcher_new(T, mode) :
                    T \in {"User", "&str"}, mode \in ConditionMode}
                 \cup {JsonMatcher_from_condition(g) : g \in JsonGroups}
  /\ out = [op |-> "none"]
  /\ batch = NoBatch

\* the records a call on the matcher may be given: a RuleMatcher<T> takes a
\* &T, a JsonMatcher takes any Matchable
ValuesFor(m) == IF m.kind = "rule" THEN RecordsOf(m.T) ELSE RecordsOf("User")

\* the conditions a RuleMatcher<T> can be handed; a JsonMatcher has no
\* add_condition
PoolFor(m) == IF m.kind = "rule" THEN CondPool(m.T) ELSE {}

\* an add_condition that puts the new condition in front
AddCondition_prepending(condition) ==
  /\ matcher.kind = "rule"
  /\ Len(matcher.conditions) < MaxConds
  /\ matcher' = [matcher EXCEPT !.conditions = <<condition>> \o @]
  /\ out' = [op |-> "add_condition", added |-> <<condition>>]
  /\ UNCHANGED batch

AddCondition(condition) ==
  /\ matcher.kind = "rule"
  /\ Len(matcher.conditions) < MaxConds
  /\ matcher' = [matcher EXCEPT !.conditions = Append(@, condition)]
  /\ out' = [op |-> "add_condition", added |-> <<condition>>]
  /\ UNCHANGED batch

AddConditions(conditions) ==
  /\ matcher.kind = "rule"
  /\ Len(matcher.conditions) + Len(conditions) <= MaxConds
  /\ matcher' = [matcher EXCEPT !.conditions = @ \o conditions]
  /\ out' = [op |-> "add_conditions", added |-> conditions]
  /\ UNCHANGED batch

Matches(value) ==
  /\ out' = [op |-> "matches", value |-> value,
             result |-> IF matcher.kind = "rule"
                        THEN RuleMatcher_matches(matcher, value)
                        ELSE JsonMatcher_matches(matcher, value)]
  /\ UNCHANGED <<matcher, batch>>

Evaluate(value) ==
  /\ out' = [op |-> "evaluate", value |-> value,
             result |-> IF matcher.kind = "rule"
                        THEN RuleMatcher_evaluate(matcher, value)
                        ELSE JsonMatcher_evaluate(matcher, value)]
  /\ UNCHANGED <<matcher, batch>>

Next ==
  \/ \E c \in PoolFor(matcher) : AddCondition(c)
  \/ \E cs \in [1..2 -> PoolFor(matcher)] : AddConditions(cs)
  \/ \E v \in ValuesFor(matcher) : Matches(v)
  \/ \E v \in ValuesFor(matcher) : Evaluate(v)

Spec == Init /\ [][Next]_vars

(***************************************************************************)
(* The evaluation entry points called directly, without a matcher:         *)
(* Predicate::test_detailed on one Condition, the comparison dispatchers   *)
(* compare_any_values and compare_json_to_any, JsonEvaluator::evaluate     *)
(***************************************************************************)
OperatorsOn(selector, operators) ==
  {Condition(selector, operator) : operator \in operators}

\* conditions on a Sample<K>: its field against every payload of its own
\* kind, against an i64 and a string, and a field it does not have
SampleProbes(K) ==
  UNION {OperatorsOn(SelFieldValue("x", DynAny(K, v)), ConditionOperator) :
           v \in PayloadsOf(K)}
  \cup OperatorsOn(SelFieldValue("x", DynAny("i64", 30)), RelationalOperators)
  \cup OperatorsOn(SelFieldValue("x", DynAny("&str", "Ali")),
                   {"Equals", "Contains"})
  \cup OperatorsOn(SelFieldValue("y", DynAny("i64", 30)), ConditionOperator)

\* the conditions without a wrapper, for each record type
LeafProbes(T) ==
  CASE T = "User" ->
         UNION {OperatorsOn(SelFieldValue("age", DynAny("u32", e)),
                            ConditionOperator) : e \in {18, 30}}
         \cup UNION {OperatorsOn(SelFieldValue("name", DynAny(ty, e)),
                                 ConditionOperator) :
                       ty \in StringKinds, e \in {"Alice", "lic"}}
         \cup OperatorsOn(SelFieldValue("nickname", DynAny("&str", "Ali")),
                          ConditionOperator)
         \cup OperatorsOn(SelFieldValue("nonexistent", DynAny("&str", "value")),
                          ConditionOperator)
         \cup OperatorsOn(SelFieldValue("age", DynAny("i32", 18)),
                          RelationalOperators)
         \cup OperatorsOn(SelFieldPath(<<"age">>, DynAny("u32", 18)),
                          RelationalOperators)
         \cup OperatorsOn(SelFieldPath(<<>>, DynAny("u32", 18)), {"Equals"})
         \cup OperatorsOn(SelFieldPath(<<"address", "city">>,
                                       DynAny("&str", "Ali")),
                          {"Equals", "IsNone"})
         \cup OperatorsOn(SelLength(3), ConditionOperator)
         \cup OperatorsOn(SelType("User"),
                          {"Equals", "NotEquals", "Contains", "IsSome"})
    [] T = "&str" ->
         UNION {OperatorsOn(SelLength(n),
                            RelationalOperators \cup {"Contains"}) :
                  n \in {4, 5}}
         \cup OperatorsOn(SelValue(StrRecord("hello")),
                          {"Equals", "NotEquals", "Contains"})
         \cup OperatorsOn(SelType("&str"), {"Equals", "NotEquals"})
         \cup OperatorsOn(SelFieldValue("x", DynAny("&str", "test")),
                          {"Equals"})
    [] T = "i32" ->
         OperatorsOn(SelValue(PrimI32(42)),
                     {"Equals", "NotEquals", "GreaterThan"})
         \cup OperatorsOn(SelLength(1), {"Equals", "NotEquals"})
    [] T = "AssetMetrics" ->
         OperatorsOn(SelFieldPath(<<"current_price">>, DynAny("f64", 10)),
                     RelationalOperators)
         \cup OperatorsOn(SelFieldPath(<<"pct_change_24h">>,
                                       DynAny("f64", 36)),
                          {"Equals", "IsNone"})
         \cup OperatorsOn(SelFieldPath(<<"current_price", "usd">>,
                                       DynAny("f64", 10)),
                          {"Equals"})
         \cup OperatorsOn(SelFieldValue("pct_change_24h", DynAny("f64", 36)),
                          {"Equals", "IsNone", "IsSome"})
    [] T = "MetricsCache" ->
         OperatorsOn(SelFieldPath(<<"BTC", "current_price">>,
                                  DynAny("f64", 10)),
                     RelationalOperators)
         \cup OperatorsOn(SelFieldPath(<<"ETH", "current_price">>,
                                       DynAny("f64", 10)),
                          {"Equals"})
         \cup OperatorsOn(SelFieldPath(<<"BTC">>, DynAny("f64", 10)),
                          {"Equals"})
         \cup OperatorsOn(SelFieldPath(<<"BTC", "volume">>, DynAny("f64", 10)),
                          {"Equals", "IsNone"})
         \cup OperatorsOn(SelFieldValue("current_price", DynAny("f64", 10)),
                          {"Equals"})
    [] OTHER ->
         UNION {SampleProbes(K) :
                  K \in {k \in ScalarTypes : T = "Sample<" \o k \o ">"}}

NestedProbes(T) ==
  IF T = "User"
  THEN OperatorsOn(SelNested(GroupAnd3), {"Equals"})
       \cup OperatorsOn(SelNested(GroupOr3), {"Equals", "IsNone"})
       \cup OperatorsOn(SelNested(GroupXor0), {"Equals"})
  ELSE {}

\* leaves and groups, each of them under one Not written with either of
\* two operators, each leaf under two Nots
Probes(T) ==
  LeafProbes(T) \cup NestedProbes(T)
  \cup UNION {OperatorsOn(SelNot(c), {"Equals", "IsNone"}) :
                c \in LeafProbes(T) \cup NestedProbes(T)}
  \cup {Condition(SelNot(Condition(SelNot(c), "Equals")), "IsSome") :
          c \in LeafProbes(T)}

\* one-rule JSON groups over the field of a Sample<K>
JsonProbes ==
  {JsonNestedCondition("AND", <<JsonCondition("x", operator, j)>>, <<>>) :
     operator \in RelationalOperators \cup {"Contains", "IsNone", "IsSome"},
     j \in JsonValues}

\* wire rules: every wire name of an operator and names that are none,
\* an operator that is not a string, a rule without operator or field
WireRules ==
  {WireRule(Some("age"), Some(JString(name)), JInt(18)) :
     name \in DOMAIN WireOperator \cup {"Equals", "between", ""}}
  \cup {WireRule(Some("age"), Some(JInt(5)), JInt(18)),
        WireRule(Some("age"), None, JInt(18)),
        WireRule(None, Some(JString("equals")), JInt(18))}

\* wire groups of depth one, two and three
RECURSIVE WireGroupsAt(_)
WireGroupsAt(depth) ==
  CASE depth = 1 ->
         {WireGroup(mode, rules, None) :
            mode \in {None, Some("OR"), Some("and")},
            rules \in {None,
                       Some(<<WireRule(Some("age"), Some(JString("less_than")),
                                       JInt(18))>>),
                       Some(<<WireRule(Some("age"), Some(JString("between")),
                                       JInt(18))>>)}}
    [] depth = 2 ->
         {WireGroup(Some("OR"), rules, nested) :
            rules \in {None,
                       Some(<<WireRule(Some("name"), Some(JString("contains")),
                                       JString("Ali"))>>)},
            nested \in {None} \cup {Some(<<g>>) : g \in WireGroupsAt(1)}}
    [] depth = 3 ->
         {WireGroup(mode, rules, nested) :
            mode \in {None, Some("AND"), Some("XOR"), Some("xor")},
            rules \in {None} \cup {Some(<<r>>) : r \in WireRules}
                     \cup {Some(<<WireRule(Some("age"),
                                           Some(JString("greater_than")),
                                           JInt(5)), r>>) :
                             r \in {WireRule(Some("age"),
                                             Some(JString(name)), JInt(18)) :
                                      name \in {"less_than", "LessThan"}}},
            nested \in {None} \cup {Some(<<g>>) : g \in WireGroupsAt(2)}}

\* what from_value is handed and what the text given to from_json parses
\* to: a group object, or a value that is no object
WireValues == WireGroupsAt(3) \cup {[wt |-> "null"], [wt |-> "string"]}

\* one-rule JSON groups over plain and dotted field strings
JsonFieldProbes ==
  {JsonNestedCondition("AND", <<JsonCondition(field, operator, j)>>, <<>>) :
     field \in {"age", "nickname", "nonexistent", "age.years", "address.city",
                "current_price", "pct_change_24h", "current_price.usd",
                "BTC.current_price", "BTC.volume", "ETH.current_price",
                "BTC.current_price.usd", "BTC"},
     operator \in {"Equals", "NotEquals", "GreaterThanOrEqual", "IsNone"},
     j \in {JInt(5), JInt(30), JString("Ali"), [jt |-> "null"]}}

\* no matcher has been constructed
NoMatcher == [kind |-> "none"]

\* a call that has been made and has not returned yet
Call(fn, args) == [op |-> "call", fn |-> fn, args |-> args]

Pending(fn) == out.op = "call" /\ out.fn = fn

\* one call of an entry point, made on arguments drawn from the inputs
InitEval ==
  /\ matcher = NoMatcher
  /\ batch = NoBatch
  /\ \/ \E T \in RecordTypes :
          \E c \in Probes(T), v \in RecordsOf(T) :
             out = Call("test_detailed", [condition |-> c, value |-> v])
     \/ \E a \in Scalars, e \in Scalars, operator \in ConditionOperator :
          out = Call("compare_any_values",
                     [actual |-> a, expected |-> e, operator |-> operator])
     \/ \E a \in Scalars, j \in JsonValues, operator \in ConditionOperator :
          out = Call("compare_json_to_any",
                     [actual |-> a, json |-> j, operator |-> operator])
     \/ \E g \in JsonProbes, T \in SampleTypes :
          \E v \in RecordsOf(T) :
             out = Call("json_evaluate", [group |-> g, value |-> v])
     \/ \E g \in JsonFieldProbes, T \in {"User", "AssetMetrics", "MetricsCache"} :
          \E v \in RecordsOf(T) :
             out = Call("json_evaluate", [group |-> g, value |-> v])
     \/ \E v \in UNION {RecordsOf(T) : T \in RecordTypes} :
          \E path \in SeqsUpTo({"age", "nickname", "nonexistent", "x"}, 2) :
             out = Call("get_field_path", [value |-> v, path |-> path])
     \/ \E json \in {[syntax |-> "ok", parsed |-> w] : w \in WireValues}
                     \cup {[syntax |-> "error"]} :
          out = Call("from_json", [json |-> json])
     \/ \E w \in WireValues : out = Call("from_value", [wire |-> w])

Returned(fn, args, result) ==
  [op |-> "return", fn |-> fn, args |-> args, result |-> result]

TestDetailed ==
  /\ Pending("test_detailed")
  /\ out' = Returned(out.fn, out.args,
                     test_detailed(out.args.condition, out.args.value))
  /\ UNCHANGED <<matcher, batch>>

CompareAnyValues ==
  /\ Pending("compare_any_values")
  /\ out' = Returned(out.fn, out.args,
                     compare_any_values(out.args.actual, out.args.expected,
                                        out.args.operator))
  /\ UNCHANGED <<matcher, batch>>

CompareJsonToAny ==
  /\ Pending("compare_json_to_any")
  /\ out' = Returned(out.fn, out.args,
                     compare_json_to_any(out.args.actual, out.args.json,
                                         out.args.operator))
  /\ UNCHANGED <<matcher, batch>>

JsonEvaluate ==
  /\ Pending("json_evaluate")
  /\ out' = Returned(out.fn, out.args,
                     JsonEvaluator_evaluate(out.args.group, out.args.value))
  /\ UNCHANGED <<matcher, batch>>

GetFieldPath ==
  /\ Pending("get_field_path")
  /\ out' = Returned(out.fn, out.args,
                     get_field_path(out.args.value, out.args.path))
  /\ UNCHANGED <<matcher, batch>>

FromJson ==
  /\ Pending("from_json")
  /\ out' = Returned(out.fn, out.args, JsonMatcher_from_json(out.args.json))
  /\ UNCHANGED <<matcher, batch>>

FromValue ==
  /\ Pending("from_value")
  /\ out' = Returned(out.fn, out.args, JsonMatcher_from_value(out.args.wire))
  /\ UNCHANGED <<matcher, batch>>

NextEval ==
  \/ TestDetailed
  \/ CompareAnyValues
  \/ CompareJsonToAny
  \/ JsonEvaluate
  \/ GetFieldPath
  \/ FromJson
  \/ FromValue

SpecEval == InitEval /\ [][NextEval]_vars

(***************************************************************************)
(* One call of a batch function, its workers and its return                *)
(***************************************************************************)
\* the slices of matchers of one type a batch function is given: rule
\* matchers that match every user, Alice alone and nobody, or JSON matchers
\* that match every user and Alice alone
MatcherSlices ==
  SeqsUpTo({[RuleMatcher_new("User", "AND") EXCEPT
               !.conditions = <<AgeGte18>>],
            [RuleMatcher_new("User", "AND") EXCEPT
               !.conditions =
                 <<Condition(SelFieldValue("nickname", DynAny("&str", "Ali")),
                             "Equals")>>],
            RuleMatcher_new("User", "OR")},
           MaxMatchers)
  \cup SeqsUpTo({JsonMatcher_from_condition(
                   JsonNestedCondition(
                     "AND",
                     <<JsonCondition("age", "GreaterThanOrEqual", JInt(18))>>,
                     <<>>)),
                 JsonMatcher_from_condition(
                   JsonNestedCondition(
                     "OR",
                     <<JsonCondition("nickname", "Equals", JString("Ali"))>>,
                     <<>>))},
                MaxMatchers)

\* the functions that run on the calling thread
SequentialFns ==
  {"evaluate_matrix_full", "evaluate_matrix", "first_matching", "matching",
   "matching_indices", "count_matching", "any_matches", "all_match",
   "filter", "matches_all"}

InitBatch ==
  /\ matcher = NoMatcher
  /\ \E fn \in ParallelFns \cup SequentialFns :
       /\ batch = [axis |-> par_axis(fn), buffers |-> <<>>]
       /\ \E matchers \in MatcherSlices :
            CASE fn \in {"evaluate_matrix_full", "evaluate_matrix",
                         "first_matching", "parallel::evaluate_matrix",
                         "parallel::evaluate_matrix_full"} ->
                   \E values \in SeqsUpTo(RecordsOf("User"), MaxRecords) :
                      out = Call(fn, [values |-> values,
                                      matchers |-> matchers])
              [] fn \in {"filter", "matches_all"} ->
                   /\ Len(matchers) = 1
                   /\ \E values \in SeqsUpTo(RecordsOf("User"), MaxRecords) :
                         out = Call(fn, [self |-> matchers[1],
                                         values |-> values])
              [] OTHER ->
                   \E value \in RecordsOf("User") :
                      out = Call(fn, [value |-> value, matchers |-> matchers])

\* the sequential evaluate_matrix
EvaluateMatrix ==
  /\ Pending("evaluate_matrix")
  /\ out' = Returned(out.fn, out.args,
                     evaluate_matrix(out.args.values, out.args.matchers))
  /\ UNCHANGED <<matcher, batch>>

FirstMatching ==
  /\ Pending("first_matching")
  /\ out' = Returned(out.fn, out.args,
                     first_matching(out.args.values, out.args.matchers))
  /\ UNCHANGED <<matcher, batch>>

Matching ==
  /\ Pending("matching")
  /\ out' = Returned(out.fn, out.args,
                     matching(out.args.value, out.args.matchers))
  /\ UNCHANGED <<matcher, batch>>

MatchingIndices ==
  /\ Pending("matching_indices")
  /\ out' = Returned(out.fn, out.args,
                     matching_indices(out.args.value, out.args.matchers))
  /\ UNCHANGED <<matcher, batch>>

CountMatching ==
  /\ Pending("count_matching")
  /\ out' = Returned(out.fn, out.args,
                     count_matching(out.args.value, out.args.matchers))
  /\ UNCHANGED <<matcher, batch>>

AnyMatches ==
  /\ Pending("any_matches")
  /\ out' = Returned(out.fn, out.args,
                     any_matches(out.args.value, out.args.matchers))
  /\ UNCHANGED <<matcher, batch>>

AllMatch ==
  /\ Pending("all_match")
  /\ out' = Returned(out.fn, out.args,
                     all_match(out.args.value, out.args.matchers))
  /\ UNCHANGED <<matcher, batch>>

\* MatcherExt::filter
Filter ==
  /\ Pending("filter")
  /\ out' = Returned(out.fn, out.args,
                     filter(out.args.self, out.args.values))
  /\ UNCHANGED <<matcher, batch>>

\* MatcherExt::matches_all
MatchesAll ==
  /\ Pending("matches_all")
  /\ out' = Returned(out.fn, out.args,
                     matches_all(out.args.self, out.args.values))
  /\ UNCHANGED <<matcher, batch>>

\* the sequential evaluate_matrix_full
EvaluateMatrixFull ==
  /\ Pending("evaluate_matrix_full")
  /\ out' = Returned(out.fn, out.args,
                     evaluate_matrix_full(out.args.values, out.args.matchers))
  /\ UNCHANGED <<matcher, batch>>

\* a worker takes item i of the parallel iterator and fills the buffer of
\* that item
ParWorker(i) ==
  /\ out.op = "call"
  /\ out.fn \in ParallelFns
  /\ i \in 1..par_items(out.fn, out.args)
  /\ i \notin DOMAIN batch.buffers
  /\ batch' = [batch EXCEPT
                 !.buffers = [k \in DOMAIN @ \cup {i} |->
                                IF k = i
                                THEN par_task(out.fn, out.args, i)
                                ELSE @[k]]]
  /\ UNCHANGED <<matcher, out>>

\* the parallel iterator is consumed and the call returns
ParCollect ==
  /\ out.op = "call"
  /\ out.fn \in ParallelFns
  /\ par_may_finish(out.fn, par_items(out.fn, out.args), batch.buffers)
  /\ out' = Returned(out.fn, out.args,
                     par_collect(out.fn, par_items(out.fn, out.args),
                                 batch.buffers))
  /\ UNCHANGED <<matcher, batch>>

NextBatch ==
  \/ EvaluateMatrixFull
  \/ EvaluateMatrix
  \/ FirstMatching
  \/ Matching
  \/ MatchingIndices
  \/ CountMatching
  \/ AnyMatches
  \/ AllMatch
  \/ Filter
  \/ MatchesAll
  \/ \E i \in 1..(MaxRecords + MaxMatchers) : ParWorker(i)
  \/ ParCollect

SpecBatch == InitBatch /\ [][NextBatch]_vars

(***************************************************************************)
(* Properties of the group fold                                            *)
(***************************************************************************)
CallDone == out.op \in {"matches", "evaluate"}

\* the verdict the last call returned
Verdict == IF out.op = "matches" THEN out.result ELSE out.result.matched

\* every NestedCondition that occurs in a condition / below a group
RECURSIVE GroupsOfCondition(_), GroupsOfGroup(_)
GroupsOfCondition(c) ==
  CASE c.selector.sel = "Nested" -> GroupsOfGroup(c.selector.group)
    [] c.selector.sel = "Not" -> GroupsOfCondition(c.selector.inner)
    [] OTHER -> {}

GroupsOfGroup(g) ==
  {g} \cup UNION {GroupsOfCondition(g.rules[i]) : i \in 1..Len(g.rules)}
      \cup UNION {GroupsOfGroup(g.nested[i]) : i \in 1..Len(g.nested)}

GroupsOfMatcher ==
  UNION {GroupsOfCondition(matcher.conditions[i]) :
           i \in 1..Len(matcher.conditions)}

RECURSIVE JsonGroupsOf(_)
JsonGroupsOf(g) ==
  {g} \cup UNION {JsonGroupsOf(g.nested[i]) : i \in 1..Len(g.nested)}

\* the child results of a group, rules first, then nested aggregates
ChildrenOfMatcher(v) ==
  [i \in 1..Len(matcher.conditions) |->
      test_detailed(matcher.conditions[i], v).passed]

ChildrenOfGroup(g, v) ==
  [i \in 1..Len(g.rules) |-> test_detailed(g.rules[i], v).passed]
  \o [i \in 1..Len(g.nested) |-> evaluate_nested(v, g.nested[i]).passed]

ChildrenOfJsonGroup(g, v) ==
  [i \in 1..Len(g.rules) |-> evaluate_rule(g.rules[i], v).passed]
  \o [i \in 1..Len(g.nested) |->
        evaluate_recursive(g.nested[i], v, <<>>).matched]

AllTrue(children) == \A i \in 1..Len(children) : children[i]

SomeTrue(children) == \E i \in 1..Len(children) : children[i]

ExactlyOneTrue(children) ==
  Cardinality({i \in 1..Len(children) : children[i]}) = 1

AndOrFold(mode, verdict, children) ==
  /\ mode = "AND" => (verdict <=> AllTrue(children))
  /\ mode = "OR" => (verdict <=> SomeTrue(children))

\* every group the last call walked, as <<mode, verdict, child results>>
GroupsWalked ==
  IF matcher.kind = "rule"
  THEN {<<matcher.mode, Verdict, ChildrenOfMatcher(out.value)>>}
       \cup {<<g.mode, evaluate_nested(out.value, g).passed,
               ChildrenOfGroup(g, out.value)>> : g \in GroupsOfMatcher}
  ELSE {<<matcher.condition.mode, Verdict,
          ChildrenOfJsonGroup(matcher.condition, out.value)>>}
       \cup {<<g.mode, evaluate_recursive(g, out.value, <<>>).matched,
               ChildrenOfJsonGroup(g, out.value)>> :
               g \in JsonGroupsOf(matcher.condition)}

\* C1: the verdict of every group (a RuleMatcher's condition list, a
\* NestedCondition, a JSON group) is the fold of its rule results and the
\* aggregates of its nested groups: all of them under AND, at least one
\* under OR; so an empty group is true under AND and false under OR.
C1_GroupFold ==
  CallDone => \A w \in GroupsWalked : AndOrFold(w[1], w[2], w[3])

\* an AND matcher with a rule and a true nested group has matched, and an
\* empty OR group inside it has come out false
C1_Witness ==
  /\ out.op = "evaluate"
  /\ matcher.kind = "rule"
  /\ matcher.mode = "AND"
  /\ Len(matcher.conditions) >= 2
  /\ out.result.matched
  /\ \E w \in GroupsWalked : w[1] = "OR" /\ Len(w[3]) = 0 /\ ~w[2]
  /\ \E w \in GroupsWalked : w[1] = "AND" /\ Len(w[3]) = 0 /\ w[2]

\* C2: an XOR group is true iff exactly one of its child results is true,
\* at 0, 1, 2 and 3 children; false with no children and with two or more
\* true children.
C2_XorExactlyOne ==
  CallDone =>
    \A w \in GroupsWalked :
       w[1] = "XOR" =>
         /\ w[2] <=> ExactlyOneTrue(w[3])
         /\ Len(w[3]) = 0 => ~w[2]
         /\ Cardinality({i \in 1..Len(w[3]) : w[3][i]}) >= 2 => ~w[2]

\* an XOR matcher of three conditions, two of them true, has not matched
C2_Witness ==
  /\ CallDone
  /\ matcher.kind = "rule"
  /\ matcher.mode = "XOR"
  /\ Len(matcher.conditions) = 3
  /\ Cardinality({i \in 1..3 : ChildrenOfMatcher(out.value)[i]}) = 2
  /\ ~Verdict

\* the sequence s without its i-th element
RemoveAt(s, i) == SubSeq(s, 1, i - 1) \o SubSeq(s, i + 1, Len(s))

\* a group with the rule at position i (a Nested selector) moved into the
\* list of nested child groups
Inlined(g, i) ==
  NestedCondition(g.mode, RemoveAt(g.rules, i),
                  Append(g.nested, g.rules[i].selector.group))

NestedRulesOf(rules) ==
  {i \in 1..Len(rules) : rules[i].selector.sel = "Nested"}

\* C10: a group that holds G as a rule through the Nested selector has the
\* verdict of the otherwise identical group that holds G among its nested
\* child groups, whatever the enclosing mode and the record.
C10_NestedSelectorIsInlinedGroup ==
  (CallDone /\ matcher.kind = "rule") =>
    /\ \A i \in NestedRulesOf(matcher.conditions) :
          Verdict = evaluate_nested(out.value,
                      Inlined(NestedCondition(matcher.mode,
                                              matcher.conditions, <<>>), i)).passed
    /\ \A g \in GroupsOfMatcher :
          \A i \in NestedRulesOf(g.rules) :
             evaluate_nested(out.value, g).passed
               = evaluate_nested(out.value, Inlined(g, i)).passed

\* a matcher holding a Nested rule next to other conditions has matched
C10_Witness ==
  /\ out.op = "matches"
  /\ matcher.kind = "rule"
  /\ Len(matcher.conditions) >= 2
  /\ NestedRulesOf(matcher.conditions) /= {}
  /\ \E g \in GroupsOfMatcher : NestedRulesOf(g.rules) /= {}
  /\ out.result

(***************************************************************************)
(* Properties of error embedding                                           *)
(***************************************************************************)
\* C3: in every ConditionResult an evaluation returns (of a leaf, of a Not,
\* of a nested group) a present error comes with passed = FALSE, so that a
\* condition with an error counts as false in the fold of its group.
C3_ErrorImpliesNotPassed ==
  (out.op = "evaluate" /\ matcher.kind = "rule") =>
    \A i \in 1..Len(out.result.condition_results) :
       out.result.condition_results[i].error.some
         => ~out.result.condition_results[i].passed

Returns(fn) == out.op = "return" /\ out.fn = fn

\* the lookup of a field comes back empty: the record type has no such
\* field, or the field is an Option that holds None
LookupEmpty(value, field) ==
  \/ field \notin DOMAIN value.fields
  \/ ~value.fields[field].some

\* the matcher of the given mode around one condition
MatcherAround(condition, T, mode) ==
  [RuleMatcher_new(T, mode) EXCEPT !.conditions = <<condition>>]

\* C4: a FieldValue condition whose lookup comes back empty gives, whatever
\* the operator, passed = FALSE, error = FieldNotFound{field, type} and
\* neither display string; a matcher around it still returns its verdict,
\* which is false in every mode.
C4_MissingFieldFailsClosed ==
  (/\ Returns("test_detailed")
   /\ out.args.condition.selector.sel = "FieldValue"
   /\ LookupEmpty(out.args.value, out.args.condition.selector.field)) =>
    /\ out.result.passed = FALSE
    /\ out.result.error
         = Some([err |-> "FieldNotFound",
                 field |-> out.args.condition.selector.field,
                 type_name |-> out.args.value.tn])
    /\ out.result.actual_value = None
    /\ out.result.expected_value = None
    /\ \A mode \in ConditionMode :
          RuleMatcher_evaluate(
            MatcherAround(out.args.condition, out.args.value.tn, mode),
            out.args.value)
          = MatchResult(FALSE, <<out.result>>, mode)

\* IsNone on the nickname of Bob, an Option that holds None, has failed
\* with FieldNotFound
C4_Witness ==
  /\ Returns("test_detailed")
  /\ out.args.value = Bob
  /\ out.args.condition
       = Condition(SelFieldValue("nickname", DynAny("&str", "Ali")), "IsNone")
  /\ out.result.error = Some(FieldNotFound("nickname", "User"))
  /\ ~out.result.passed

(***************************************************************************)
(* Properties of the comparison dispatchers                                *)
(***************************************************************************)
\* C5: when the scalar kinds of the two operands differ, the dispatcher
\* returns (false, None, None) for every operator, NotEquals included.
C5_KindMismatchFailsClosed ==
  (/\ Returns("compare_any_values")
   /\ KindOf(out.args.actual.ty) /= KindOf(out.args.expected.ty)) =>
    out.result = <<FALSE, None, None>>

\* an i32 30 against an i64 5 under NotEquals has come back (false, None,
\* None)
C5_Witness ==
  /\ Returns("compare_any_values")
  /\ out.args.actual = DynAny("i32", 30)
  /\ out.args.expected = DynAny("i64", 5)
  /\ out.args.operator = "NotEquals"
  /\ out.result = <<FALSE, None, None>>

\* the relation an operator names, on two numbers
NativeRelation(operator, a, e) ==
  CASE operator = "Equals" -> a = e
    [] operator = "NotEquals" -> a /= e
    [] operator = "GreaterThan" -> a > e
    [] operator = "LessThan" -> a < e
    [] operator = "GreaterThanOrEqual" -> a >= e
    [] operator = "LessThanOrEqual" -> a <= e

\* the last call tested a FieldValue condition with a relational operator
\* on a field that holds a number of the kind of the expected value
SameNumericKindCase ==
  /\ Returns("test_detailed")
  /\ out.args.condition.selector.sel = "FieldValue"
  /\ out.args.condition.operator \in RelationalOperators
  /\ ~LookupEmpty(out.args.value, out.args.condition.selector.field)
  /\ out.args.condition.selector.expected.ty \in NumericKinds
  /\ out.args.value.fields[out.args.condition.selector.field].val.ty
       = out.args.condition.selector.expected.ty

\* C6: with a field and an expected value of the same numeric kind and one
\* of the six relational operators, passed is the native comparison of the
\* two numbers and the result carries both display strings; age 30 against
\* >= 18 gives passed, "30" and "18".
C6_SameNumericKindNative ==
  /\ SameNumericKindCase =>
       /\ out.result.passed
            = NativeRelation(
                out.args.condition.operator,
                out.args.value.fields[out.args.condition.selector.field].val.v,
                out.args.condition.selector.expected.v)
       /\ out.result.actual_value
            = Some(to_string(
                out.args.condition.selector.expected.ty,
                out.args.value.fields[out.args.condition.selector.field].val.v))
       /\ out.result.expected_value
            = Some(to_string(out.args.condition.selector.expected.ty,
                             out.args.condition.selector.expected.v))
       /\ out.result.error = None
  /\ (/\ Returns("test_detailed")
      /\ out.args.condition = AgeGte18
      /\ out.args.value = Alice) =>
       /\ out.result.passed
       /\ out.result.actual_value = Some("30")
       /\ out.result.expected_value = Some("18")

\* an f32 field of 85.5 against >= 85.5 has passed with both displays
C6_Witness ==
  /\ SameNumericKindCase
  /\ out.args.condition.operator = "GreaterThanOrEqual"
  /\ out.args.condition.selector.expected = DynAny("f32", 171)
  /\ out.args.value = Sample("f32", 171)
  /\ out.result.passed
  /\ out.result.actual_value = Some("85.5")
  /\ out.result.expected_value = Some("85.5")

\* the number a scalar of a numeric kind stands for, in halves
InHalves(x) == IF x.ty \in FloatKinds THEN x.v ELSE x.v * FloatScale

\* the number a JSON number stands for, in halves
JsonInHalves(j) == IF j.repr = "int" THEN j.v * FloatScale ELSE j.v

\* C7: a field of any numeric kind (every signed and unsigned width, f32,
\* f64) against a JSON number is compared as two 64-bit floats under the
\* six relational operators, so a field equal to 5 matches the JSON rule
\* equals 5 whatever its integer kind.
C7_JsonNumericWidening ==
  (/\ Returns("compare_json_to_any")
   /\ out.args.actual.ty \in NumericKinds
   /\ out.args.json.jt = "number"
   /\ out.args.operator \in RelationalOperators) =>
    out.result[1] = NativeRelation(out.args.operator,
                                   InHalves(out.args.actual),
                                   JsonInHalves(out.args.json))

(***************************************************************************)
(* Properties of Not                                                       *)
(***************************************************************************)
\* the last call tested a Not condition
NotCase ==
  /\ Returns("test_detailed")
  /\ out.args.condition.selector.sel = "Not"

\* the result of the condition under the Not of the last call
InnerResult == test_detailed(out.args.condition.selector.inner, out.args.value)

\* C8: the result of Not(c) has the negation of c's passed, the description
\* "NOT(" + c's description + ")", and c's actual value, expected value and
\* error; the operator written on the Not condition changes nothing.
C8_NotInvertsAndPreserves ==
  NotCase =>
    /\ out.result.passed = ~InnerResult.passed
    /\ out.result.description = "NOT(" \o InnerResult.description \o ")"
    /\ out.result.actual_value = InnerResult.actual_value
    /\ out.result.expected_value = InnerResult.expected_value
    /\ out.result.error = InnerResult.error
    /\ \A operator \in ConditionOperator :
          test_detailed(Condition(out.args.condition.selector, operator),
                        out.args.value) = out.result

\* a Not written with IsNone around a failing age comparison has passed and
\* kept both display strings
C8_Witness ==
  /\ NotCase
  /\ out.args.condition.operator = "IsNone"
  /\ out.args.condition.selector.inner
       = Condition(SelFieldValue("age", DynAny("u32", 18)), "LessThan")
  /\ out.args.value = Alice
  /\ out.result.passed
  /\ out.result.description = "NOT(field 'age' LessThan)"
  /\ out.result.actual_value = Some("30")
  /\ out.result.expected_value = Some("18")

IsLeaf(c) == c.selector.sel \notin {"Not", "Nested"}

\* the last call tested Not(Not(c)) for a leaf c
NotNotCase ==
  /\ NotCase
  /\ out.args.condition.selector.inner.selector.sel = "Not"
  /\ IsLeaf(out.args.condition.selector.inner.selector.inner)

\* the result of the leaf under the two Nots of the last call
LeafResult ==
  test_detailed(out.args.condition.selector.inner.selector.inner,
                out.args.value)

\* C9: Not(Not(c)) gives, for a leaf c, the passed verdict, the actual
\* value, the expected value and the error that c gives.
C9_DoubleNegation ==
  NotNotCase =>
    /\ out.result.passed = LeafResult.passed
    /\ out.result.actual_value = LeafResult.actual_value
    /\ out.result.expected_value = LeafResult.expected_value
    /\ out.result.error = LeafResult.error

\* Not(Not(name contains "lic")) on Alice has passed with both displays
C9_Witness ==
  /\ NotNotCase
  /\ out.args.condition.selector.inner.selector.inner
       = Condition(SelFieldValue("name", DynAny("&str", "lic")), "Contains")
  /\ out.args.value = Alice
  /\ out.result.passed
  /\ out.result.actual_value = Some("Alice")
  /\ out.result.expected_value = Some("lic")

(***************************************************************************)
(* Properties of the result sequences                                      *)
(***************************************************************************)
\* the leaf rules of a JSON tree: the rules of a group, then those of each
\* nested group, depth first, in declaration order
RECURSIVE LeafRulesOf(_), LeafRulesOfAll(_)
LeafRulesOf(g) == g.rules \o LeafRulesOfAll(g.nested)

LeafRulesOfAll(groups) ==
  IF Len(groups) = 0
  THEN <<>>
  ELSE LeafRulesOf(Head(groups)) \o LeafRulesOfAll(Tail(groups))

\* C11: evaluate never stops early: a RuleMatcher returns one result per
\* condition, in declaration order, whatever the mode and the earlier
\* outcomes; a JsonMatcher returns in details one entry per leaf rule of
\* the whole tree, a group's rules first, then each nested group depth
\* first.
C11_NoShortCircuit ==
  out.op = "evaluate" =>
    IF matcher.kind = "rule"
    THEN /\ Len(out.result.condition_results) = Len(matcher.conditions)
         /\ \A i \in 1..Len(matcher.conditions) :
               out.result.condition_results[i]
                 = test_detailed(matcher.conditions[i], out.value)
    ELSE /\ Len(out.result.details) = Len(LeafRulesOf(matcher.condition))
         /\ \A k \in 1..Len(out.result.details) :
               /\ out.result.details[k].field
                    = LeafRulesOf(matcher.condition)[k].field
               /\ out.result.details[k].operator
                    = LeafRulesOf(matcher.condition)[k].operator
               /\ out.result.details[k].expected
                    = LeafRulesOf(matcher.condition)[k].value
               /\ out.result.details[k].passed
                    = evaluate_rule(LeafRulesOf(matcher.condition)[k],
                                    out.value).passed

\* an AND matcher of three conditions whose first condition failed has
\* returned three results
C11_Witness ==
  /\ out.op = "evaluate"
  /\ matcher.kind = "rule"
  /\ matcher.mode = "AND"
  /\ Len(matcher.conditions) = 3
  /\ Len(out.result.condition_results) = 3
  /\ ~out.result.condition_results[1].passed
  /\ out.result.condition_results[3].passed
  /\ ~out.result.matched

\* a JSON tree with rules at two levels has returned one detail per leaf
C11_JsonWitness ==
  /\ out.op = "evaluate"
  /\ matcher.kind = "json"
  /\ Len(matcher.condition.rules) = 2
  /\ Len(matcher.condition.nested) = 1
  /\ Len(out.result.details) = 4

(***************************************************************************)
(* Frame: what a call may change                                           *)
(***************************************************************************)
\* C16: matches and evaluate leave the matcher (its mode and its condition
\* list) as it was; the matcher changes only in add_condition and
\* add_conditions, which append the given conditions at the end in call
\* order and leave the mode and the conditions already held untouched.
C16_EvaluationFrame ==
  [][/\ out'.op \in {"matches", "evaluate"} => matcher' = matcher
     /\ out'.op \in {"add_condition", "add_conditions"} =>
          /\ matcher'.kind = matcher.kind
          /\ matcher'.T = matcher.T
          /\ matcher'.mode = matcher.mode
          /\ matcher'.conditions = matcher.conditions \o out'.added
     /\ matcher' /= matcher =>
          out'.op \in {"add_condition", "add_conditions"}]_vars

\* two conditions have been appended behind a different one
C16_Witness ==
  /\ out.op = "add_conditions"
  /\ Len(matcher.conditions) = 3
  /\ SubSeq(matcher.conditions, 2, 3) = out.added
  /\ matcher.conditions[1] /= matcher.conditions[2]

(***************************************************************************)
(* matches against evaluate                                                *)
(***************************************************************************)
\* C17: for a RuleMatcher and for a JsonMatcher, matches(v) returns the
\* matched flag of evaluate(v), and the mode reported in a MatchResult is
\* the mode of the matcher.
C17_MatchesIsEvaluateMatched ==
  /\ out.op = "matches" =>
       out.result = EvaluateOf(matcher, out.value).matched
  /\ out.op = "evaluate" =>
       /\ out.result.matched = MatchesOf(matcher, out.value)
       /\ matcher.kind = "rule" => out.result.mode = matcher.mode

\* an evaluate of a three-condition AND matcher with a failed condition among
\* passed ones has returned not matched
C17_Witness ==
  /\ out.op = "evaluate"
  /\ matcher.kind = "rule"
  /\ matcher.mode = "AND"
  /\ Len(matcher.conditions) = 3
  /\ out.result.mode = "AND"
  /\ ~out.result.matched
  /\ \E i \in 1..3 : out.result.condition_results[i].passed

(***************************************************************************)
(* The default get_field_path                                              *)
(***************************************************************************)
\* C18: for a type that does not override get_field_path, get_field_path
\* on a path of one segment returns what get_field returns on that
\* segment.
C18_DefaultPathIsGetField ==
  (/\ Returns("get_field_path")
   /\ out.args.value.path_impl = "default"
   /\ Len(out.args.path) = 1)
    => out.result = get_field(out.args.value, out.args.path[1])

(***************************************************************************)
(* The presence operators                                                  *)
(***************************************************************************)
\* what a presence check of the field would answer
PresenceCheck(operator, value, field) ==
  IF operator = "IsNone"
  THEN LookupEmpty(value, field)
  ELSE ~LookupEmpty(value, field)

\* C19: is_some and is_none check presence: a field condition with
\* operator is_some passes when the value of the named field is present,
\* one with is_none passes when it is None or absent, in a rule-built and
\* in a JSON-built matcher.
C19_PresenceOperators ==
  /\ (/\ Returns("test_detailed")
      /\ out.args.condition.selector.sel = "FieldValue"
      /\ out.args.condition.operator \in {"IsNone", "IsSome"}) =>
       out.result.passed
         = PresenceCheck(out.args.condition.operator, out.args.value,
                         out.args.condition.selector.field)
  /\ (/\ Returns("json_evaluate")
      /\ out.args.group.rules[1].operator \in {"IsNone", "IsSome"}) =>
       out.result.matched
         = PresenceCheck(out.args.group.rules[1].operator, out.args.value,
                         out.args.group.rules[1].field)

(***************************************************************************)
(* Construction from JSON                                                  *)
(***************************************************************************)
\* the fifteen operator strings of the wire format
FifteenWireOperators ==
  {"equals", "not_equals", "greater_than", "less_than",
   "greater_than_or_equal", "less_than_or_equal", "contains", "not_contains",
   "starts_with", "ends_with", "regex", "is_none", "is_some", "is_empty",
   "is_not_empty"}

\* the group objects of a wire tree, the root included
RECURSIVE WireGroupsOf(_)
WireGroupsOf(w) ==
  {w} \cup (IF w.wnested.some
            THEN UNION {WireGroupsOf(w.wnested.val[i]) :
                          i \in 1..Len(w.wnested.val)}
            ELSE {})

\* the rule objects of a wire tree, at every depth
WireRulesOf(w) ==
  UNION {{g.wrules.val[i] : i \in 1..Len(g.wrules.val)} :
           g \in {h \in WireGroupsOf(w) : h.wrules.some}}

\* the value does not have the shape of a group: it is no object, a mode is
\* none of AND, OR, XOR, a rule lacks its field or its operator, or an
\* operator is not a string
MalformedValue(w) ==
  \/ w.wt /= "object"
  \/ \E g \in WireGroupsOf(w) : g.wmode.some /\ g.wmode.val \notin ConditionMode
  \/ \E r \in WireRulesOf(w) :
        \/ ~r.wfield.some
        \/ ~r.woperator.some
        \/ r.woperator.val.jt /= "string"

UnknownOperatorIn(w) ==
  /\ w.wt = "object"
  /\ \E r \in WireRulesOf(w) :
        /\ r.woperator.some
        /\ r.woperator.val.jt = "string"
        /\ r.woperator.val.s \notin FifteenWireOperators

\* the result is an error and carries no matcher
IsErrorOnly(result) == ~result.ok /\ "matcher" \notin DOMAIN result

\* the result is a matcher on which matches and evaluate return a verdict
\* for every record
IsTotalMatcher(result) ==
  /\ result.ok
  /\ result.matcher.kind = "json"
  /\ \A v \in RecordsOf("User") :
        /\ JsonMatcher_matches(result.matcher, v) \in BOOLEAN
        /\ JsonMatcher_evaluate(result.matcher, v).matched \in BOOLEAN

\* C20: from_json and from_value return an error and no matcher when the
\* input is malformed or a rule at any depth names an operator outside the
\* fifteen snake_case wire operators; otherwise they return a matcher, and
\* matches and evaluate on that matcher return a verdict.
C20_FromJsonFailsOrTotal ==
  /\ Returns("from_value") =>
       IF MalformedValue(out.args.wire) \/ UnknownOperatorIn(out.args.wire)
       THEN IsErrorOnly(out.result)
       ELSE IsTotalMatcher(out.result)
  /\ Returns("from_json") =>
       IF out.args.json.syntax /= "ok"
       THEN IsErrorOnly(out.result)
       ELSE IF \/ MalformedValue(out.args.json.parsed)
               \/ UnknownOperatorIn(out.args.json.parsed)
            THEN IsErrorOnly(out.result)
            ELSE IsTotalMatcher(out.result)

\* from_json has returned an error for a text whose one defect is an
\* unknown operator two groups below the root
C20_Witness ==
  /\ Returns("from_json")
  /\ ~out.result.ok
  /\ "matcher" \notin DOMAIN out.result
  /\ out.args.json.syntax = "ok"
  /\ ~MalformedValue(out.args.json.parsed)
  /\ out.args.json.parsed.wrules.some
  /\ \A r \in {out.args.json.parsed.wrules.val[i] :
                 i \in 1..Len(out.args.json.parsed.wrules.val)} :
        r.woperator.val.s \in FifteenWireOperators
  /\ out.args.json.parsed.wnested.some
  /\ out.args.json.parsed.wnested.val[1].wnested.some
  /\ \E r \in WireRulesOf(out.args.json.parsed.wnested.val[1].wnested.val[1]) :
        r.woperator.val.s = "between"

\* from_value has returned a matcher for a tree of three levels
C20_OkWitness ==
  /\ Returns("from_value")
  /\ out.result.ok
  /\ Len(out.result.matcher.condition.rules) = 2
  /\ Len(out.result.matcher.condition.nested) = 1
  /\ Len(out.result.matcher.condition.nested[1].nested) = 1
  /\ Len(out.result.matcher.condition.nested[1].nested[1].rules) = 1

(***************************************************************************)
(* The batch functions                                                     *)
(***************************************************************************)
\* the elements of a sequence
Elements(seq) == {seq[k] : k \in 1..Len(seq)}

\* C13: for N records and M matchers evaluate_matrix_full returns N rows of
\* M booleans, and the cell at row i, column j is
\* matchers[j].matches(records[i]); the sequential and the parallel version
\* both do.
C13_MatrixFullCells ==
  (Returns("evaluate_matrix_full")
   \/ Returns("parallel::evaluate_matrix_full")) =>
    /\ Len(out.result) = Len(out.args.values)
    /\ \A i \in 1..Len(out.args.values) :
          /\ Len(out.result[i]) = Len(out.args.matchers)
          /\ \A j \in 1..Len(out.args.matchers) :
                out.result[i][j]
                  = MatchesOf(out.args.matchers[j], out.args.values[i])

\* the parallel version has returned a matrix of two rows and three columns
\* with a row of differing cells
C13_Witness ==
  /\ Returns("parallel::evaluate_matrix_full")
  /\ Len(out.args.values) = 2
  /\ Len(out.args.matchers) = 3
  /\ Len(out.result) = 2
  /\ \E i \in 1..2 : \E j, k \in 1..3 : out.result[i][j] /= out.result[i][k]

\* the sequential version has returned a matrix of two rows and three
\* columns
C13_SequentialWitness ==
  /\ Returns("evaluate_matrix_full")
  /\ Len(out.result) = 2
  /\ Len(out.result[1]) = 3
  /\ out.result[1] /= out.result[2]

\* C14: whatever the order in which the workers ran, parallel
\* evaluate_matrix returns the pairs (record index, matcher index) that
\* sequential evaluate_matrix returns, none missing and none twice; parallel
\* matching_indices returns the indices of the sequential one, and parallel
\* any_matches and all_match return the sequential verdicts.
C14_ParallelEqualsSequential ==
  /\ Returns("parallel::evaluate_matrix") =>
       /\ Elements(out.result)
            = Elements(evaluate_matrix(out.args.values, out.args.matchers))
       /\ Cardinality(Elements(out.result)) = Len(out.result)
  /\ Returns("parallel::matching_indices") =>
       /\ Elements(out.result)
            = Elements(matching_indices(out.args.value, out.args.matchers))
       /\ Cardinality(Elements(out.result)) = Len(out.result)
  /\ Returns("parallel::any_matches") =>
       out.result = any_matches(out.args.value, out.args.matchers)
  /\ Returns("parallel::all_match") =>
       out.result = all_match(out.args.value, out.args.matchers)

\* parallel evaluate_matrix has returned pairs of both records, among them
\* the last matcher on the second record
C14_Witness ==
  /\ Returns("parallel::evaluate_matrix")
  /\ Len(out.args.values) = 2
  /\ Len(out.args.matchers) = 3
  /\ <<0, 0>> \in Elements(out.result)
  /\ <<1, 2>> \in Elements(out.result)
  /\ Len(out.result) < 6

\* parallel any_matches has returned true with a worker that never ran
C14_EarlyExitWitness ==
  /\ Returns("parallel::any_matches")
  /\ out.result
  /\ DOMAIN batch.buffers /= 1..Len(out.args.matchers)

\* C15: the parallel matrix functions fan out over the larger dimension: by
\* record when there are at least as many records as matchers, by matcher
\* when there are more matchers than records; one private buffer per
\* partition has been filled when the buffers are merged.
C15_FanOutOverLargerDimension ==
  (/\ out.op \in {"call", "return"}
   /\ out.fn \in {"parallel::evaluate_matrix",
                  "parallel::evaluate_matrix_full"}) =>
    IF Len(out.args.values) >= Len(out.args.matchers)
    THEN /\ batch.axis = "values"
         /\ out.op = "return" =>
              DOMAIN batch.buffers = 1..Len(out.args.values)
    ELSE /\ batch.axis = "matchers"
         /\ out.op = "return" =>
              DOMAIN batch.buffers = 1..Len(out.args.matchers)

(***************************************************************************)
(* The selectors one by one                                                *)
(***************************************************************************)
\* the three values a comparison hands to a result
Compared(result) ==
  <<result.passed, result.actual_value, result.expected_value>>

\* C23: a FieldPath condition resolves in this order: an empty path gives
\* passed = FALSE with EmptyFieldPath; else a value returned by
\* get_field_path(path) is compared; else, on a path of one segment, a
\* value returned by get_field(path[0]) is compared; else the result is
\* passed = FALSE with NestedFieldNotFound holding the whole path and
\* failed_at = path[0], whichever segment was missing.
C23_FieldPathResolution ==
  (/\ Returns("test_detailed")
   /\ out.args.condition.selector.sel = "FieldPath") =>
    IF Len(out.args.condition.selector.path) = 0
    THEN /\ ~out.result.passed
         /\ out.result.error = Some([err |-> "EmptyFieldPath"])
    ELSE IF get_field_path(out.args.value,
                           out.args.condition.selector.path).some
    THEN /\ out.result.error = None
         /\ Compared(out.result)
              = compare_any_values(
                  get_field_path(out.args.value,
                                 out.args.condition.selector.path).val,
                  out.args.condition.selector.expected,
                  out.args.condition.operator)
    ELSE IF /\ Len(out.args.condition.selector.path) = 1
            /\ get_field(out.args.value,
                         out.args.condition.selector.path[1]).some
    THEN /\ out.result.error = None
         /\ Compared(out.result)
              = compare_any_values(
                  get_field(out.args.value,
                            out.args.condition.selector.path[1]).val,
                  out.args.condition.selector.expected,
                  out.args.condition.operator)
    ELSE /\ ~out.result.passed
         /\ out.result.actual_value = None
         /\ out.result.error
              = Some([err |-> "NestedFieldNotFound",
                      path |-> out.args.condition.selector.path,
                      failed_at |-> out.args.condition.selector.path[1]])

\* a path of two segments whose first segment is a field of the record has
\* failed with NestedFieldNotFound at that first segment
C23_Witness ==
  /\ Returns("test_detailed")
  /\ out.args.condition.selector.sel = "FieldPath"
  /\ Len(out.args.condition.selector.path) = 2
  /\ get_field(out.args.value, out.args.condition.selector.path[1]).some
  /\ out.result.error.some
  /\ out.result.error.val.err = "NestedFieldNotFound"
  /\ out.result.error.val.failed_at = out.args.condition.selector.path[1]

\* a path of one segment on a type with the default get_field_path has been
\* compared through get_field and passed
C23_FallbackWitness ==
  /\ Returns("test_detailed")
  /\ out.args.condition.selector.sel = "FieldPath"
  /\ out.args.value.path_impl = "default"
  /\ Len(out.args.condition.selector.path) = 1
  /\ out.result.passed
  /\ out.result.error = None

\* C24: a Length condition on a record whose get_length() is None gives,
\* for every operator, passed = FALSE with LengthNotSupported{type}, no
\* actual display and the expected length displayed; when get_length() is
\* Some(n) the result has no error and, under the six relational operators,
\* passed is the native comparison of n with the expected length.
C24_LengthCondition ==
  (/\ Returns("test_detailed")
   /\ out.args.condition.selector.sel = "Length") =>
    IF get_length(out.args.value).some
    THEN /\ out.result.error = None
         /\ out.args.condition.operator \in RelationalOperators =>
              out.result.passed
                = NativeRelation(out.args.condition.operator,
                                 get_length(out.args.value).val,
                                 out.args.condition.selector.length)
    ELSE /\ ~out.result.passed
         /\ out.result.error
              = Some([err |-> "LengthNotSupported",
                      type_name |-> out.args.value.tn])
         /\ out.result.actual_value = None
         /\ out.result.expected_value
              = Some(ToString(out.args.condition.selector.length))

\* a Length condition with an operator that is not relational has failed
\* on a record without a length, the expected length displayed
C24_Witness ==
  /\ Returns("test_detailed")
  /\ out.args.condition.selector.sel = "Length"
  /\ out.args.condition.operator = "IsEmpty"
  /\ ~get_length(out.args.value).some
  /\ out.result.error.some
  /\ out.result.expected_value = Some("3")

\* a Length condition on a string of five characters has passed under >=
C24_SomeWitness ==
  /\ Returns("test_detailed")
  /\ out.args.condition.selector.sel = "Length"
  /\ out.args.condition.operator = "GreaterThanOrEqual"
  /\ get_length(out.args.value) = Some(5)
  /\ out.args.condition.selector.length = 5
  /\ out.result.passed

\* the condition of the last test has an operator outside the set its
\* selector supports: a Type selector without equals, not_equals or
\* contains, a Value selector without equals or not_equals, a field that
\* holds a number, a bool or a char without a relational operator
UnsupportedOperatorCase ==
  /\ Returns("test_detailed")
  /\ \/ /\ out.args.condition.selector.sel = "Type"
        /\ out.args.condition.operator
             \notin {"Equals", "NotEquals", "Contains"}
     \/ /\ out.args.condition.selector.sel = "Value"
        /\ out.args.condition.operator \notin {"Equals", "NotEquals"}
     \/ /\ out.args.condition.selector.sel = "FieldValue"
        /\ out.args.condition.operator \notin RelationalOperators
        /\ ~LookupEmpty(out.args.value, out.args.condition.selector.field)
        /\ get_field(out.args.value,
                     out.args.condition.selector.field).val.ty
             \in NumericKinds \cup {"bool", "char"}

\* the same on a Length selector
UnsupportedLengthOperatorCase ==
  /\ Returns("test_detailed")
  /\ out.args.condition.selector.sel = "Length"
  /\ out.args.condition.operator \notin RelationalOperators

\* C25 as amended: an operator outside the supported set of a Type or Value
\* selector, of a numeric, bool or char field, or of a Length selector on a
\* record that has a length, gives passed = FALSE with error = None.
C25_UnsupportedOperatorFailsQuietly ==
  (\/ UnsupportedOperatorCase
   \/ UnsupportedLengthOperatorCase /\ get_length(out.args.value).some) =>
    /\ ~out.result.passed
    /\ out.result.error = None

\* C25 as stated: an operator outside a selector's supported set always
\* gives passed = FALSE with error = None, on a Type, Value or Length
\* selector and on a numeric, bool or char field.
C25_AsStated ==
  (UnsupportedOperatorCase \/ UnsupportedLengthOperatorCase) =>
    /\ ~out.result.passed
    /\ out.result.error = None

\* contains on the length of a string of five characters, expected 5, has
\* failed without error
C25_Witness ==
  /\ UnsupportedLengthOperatorCase
  /\ out.args.condition.operator = "Contains"
  /\ get_length(out.args.value) = Some(5)
  /\ out.args.condition.selector.length = 5
  /\ ~out.result.passed
  /\ out.result.error = None

(***************************************************************************)
(* The JSON rule                                                           *)
(***************************************************************************)
\* the last call evaluated a group of one rule and no nested group
OneRuleCase ==
  /\ Returns("json_evaluate")
  /\ Len(out.args.group.rules) = 1
  /\ Len(out.args.group.nested) = 0

\* the number of '.' in a string
DotCount(s) == Cardinality({i \in 1..Len(s) : CharAt(s, i) = "."})

\* the lookup the claim describes: get_field on a string without '.',
\* get_field_path on the list of segments otherwise
SegmentLookup(value, field) ==
  IF DotCount(field) = 0
  THEN get_field(value, field)
  ELSE get_field_path(value, split_dots(field))

\* C29: a JSON rule splits its field string on '.': one segment is looked
\* up with get_field, two or more with get_field_path on the segment list
\* and no fallback to get_field; a lookup that returns nothing gives
\* passed = FALSE, actual = None and the error text
\* "Field '<field>' not found"; one that returns a value gives error = None.
C29_JsonFieldResolution ==
  OneRuleCase =>
    /\ Len(out.result.details) = 1
    /\ Len(split_dots(out.args.group.rules[1].field))
         = DotCount(out.args.group.rules[1].field) + 1
    /\ IF SegmentLookup(out.args.value, out.args.group.rules[1].field).some
       THEN out.result.details[1].error = None
       ELSE /\ ~out.result.details[1].passed
            /\ out.result.details[1].actual = None
            /\ out.result.details[1].error
                 = Some("Field '" \o out.args.group.rules[1].field
                        \o "' not found")

\* a rule on "age.years" has failed as not found on a record that has the
\* field age
C29_Witness ==
  /\ OneRuleCase
  /\ out.args.group.rules[1].field = "age.years"
  /\ get_field(out.args.value, "age").some
  /\ ~out.result.details[1].passed
  /\ out.result.details[1].error = Some("Field 'age.years' not found")

\* a rule on a dotted field has been resolved by a traversing get_field_path
C29_PathWitness ==
  /\ OneRuleCase
  /\ out.args.group.rules[1].field = "BTC.current_price"
  /\ out.result.details[1].error = None
  /\ out.result.details[1].passed

\* the kind of the field does not correspond to the type of the JSON
\* value: a string against a number, a number against a string or a bool,
\* anything against null, an array or an object
KindMismatch(ty, j) ==
  \/ ty \in StringKinds /\ j.jt = "number"
  \/ ty \in NumericKinds /\ j.jt \in {"string", "bool"}
  \/ j.jt \in {"null", "array", "object"}

\* C30: in the JSON comparator a field whose kind does not correspond to
\* the type of the JSON value gives passed = FALSE for every operator,
\* not_equals included, with error = None and no actual value; a bool field
\* against a JSON bool passes only under equals or not_equals.
C30_JsonKindMismatchFailsClosed ==
  /\ Returns("compare_json_to_any") =>
       /\ KindMismatch(out.args.actual.ty, out.args.json) =>
            out.result = <<FALSE, None, None>>
       /\ (/\ out.args.actual.ty = "bool"
           /\ out.args.json.jt = "bool"
           /\ out.result[1]) =>
            out.args.operator \in {"Equals", "NotEquals"}
  /\ (/\ OneRuleCase
      /\ ~LookupEmpty(out.args.value, out.args.group.rules[1].field)
      /\ DotCount(out.args.group.rules[1].field) = 0
      /\ KindMismatch(get_field(out.args.value,
                                out.args.group.rules[1].field).val.ty,
                      out.args.group.rules[1].value)) =>
       /\ ~out.result.details[1].passed
       /\ ~out.result.matched
       /\ out.result.details[1].error = None
       /\ out.result.details[1].actual = None

\* not_equals between a numeric field and a JSON string has failed, through
\* a rule, with neither error nor actual value
C30_Witness ==
  /\ OneRuleCase
  /\ out.args.group.rules[1].operator = "NotEquals"
  /\ out.args.group.rules[1].value.jt = "string"
  /\ ~LookupEmpty(out.args.value, out.args.group.rules[1].field)
  /\ get_field(out.args.value, out.args.group.rules[1].field).val.ty
       \in NumericKinds
  /\ ~out.result.details[1].passed
  /\ out.result.details[1].error = None
  /\ out.result.details[1].actual = None

\* a bool against an equal JSON bool has passed under equals and has been
\* displayed
C30_BoolWitness ==
  /\ Returns("compare_json_to_any")
  /\ out.args.actual.ty = "bool"
  /\ out.args.json.jt = "bool"
  /\ out.args.operator = "Equals"
  /\ out.result[1]
  /\ out.result[2].some

(***************************************************************************)
(* The detailed evaluation of a rule-built tree                            *)
(***************************************************************************)
RECURSIVE ConditionLeaves(_), GroupLeaves(_), ConditionLeavesOfAll(_)
RECURSIVE GroupLeavesOfAll(_)
\* the leaf conditions below a condition: a Nested selector stands for the
\* leaves of its group, every other condition is a leaf itself
ConditionLeaves(c) ==
  IF c.selector.sel = "Nested" THEN GroupLeaves(c.selector.group) ELSE <<c>>

ConditionLeavesOfAll(conds) ==
  IF Len(conds) = 0
  THEN <<>>
  ELSE ConditionLeaves(Head(conds)) \o ConditionLeavesOfAll(Tail(conds))

GroupLeavesOfAll(groups) ==
  IF Len(groups) = 0
  THEN <<>>
  ELSE GroupLeaves(Head(groups)) \o GroupLeavesOfAll(Tail(groups))

\* depth first, declaration order: a group's rules, then its child groups
GroupLeaves(g) == ConditionLeavesOfAll(g.rules) \o GroupLeavesOfAll(g.nested)

\* C22: the detailed evaluation of a rule-built tree holds the
\* ConditionResult of every leaf condition of the whole tree, the leaves
\* inside Nested groups included, so it has at least as many results as the
\* tree has leaves.
C22_NestedLeavesCollected ==
  (out.op = "evaluate" /\ matcher.kind = "rule") =>
    /\ Len(out.result.condition_results)
         >= Len(ConditionLeavesOfAll(matcher.conditions))
    /\ \A k \in 1..Len(ConditionLeavesOfAll(matcher.conditions)) :
          test_detailed(ConditionLeavesOfAll(matcher.conditions)[k],
                        out.value)
            \in Elements(out.result.condition_results)

(***************************************************************************)
(* The sequential batch functions and the MatcherExt surface               *)
(***************************************************************************)
\* the positions of the values a matcher matches
Hits(self, values) == {i \in 1..Len(values) : MatchesOf(self, values[i])}

\* C21: matches_all returns a list as long as the values whose i-th element
\* is matches(values[i]); filter returns exactly the values that match, each
\* occurrence once and in their original order, so its length is the number
\* of true entries of matches_all.
C21_FilterAndMatchesAll ==
  /\ Returns("matches_all") =>
       /\ Len(out.result) = Len(out.args.values)
       /\ \A i \in 1..Len(out.args.values) :
             out.result[i] = MatchesOf(out.args.self, out.args.values[i])
  /\ Returns("filter") =>
       /\ Len(out.result)
            = Cardinality(Hits(out.args.self, out.args.values))
       /\ \A i \in Hits(out.args.self, out.args.values) :
             out.result[Cardinality(
                          {k \in Hits(out.args.self, out.args.values) :
                             k <= i})]
               = out.args.values[i]
       /\ Len(out.result)
            = Cardinality(
                {i \in 1..Len(out.args.values) :
                   matches_all(out.args.self, out.args.values)[i]})

\* filter has dropped the first of two values and kept the second
C21_Witness ==
  /\ Returns("filter")
  /\ Len(out.args.values) = 2
  /\ Len(out.result) = 1
  /\ out.result[1] = out.args.values[2]
  /\ out.result[1] /= out.args.values[1]

\* filter has kept both occurrences of a value given twice
C21_TwiceWitness ==
  /\ Returns("filter")
  /\ Len(out.args.values) = 2
  /\ out.args.values[1] = out.args.values[2]
  /\ Len(out.result) = 2

\* matches_all has returned a true and a false entry
C21_MatchesAllWitness ==
  /\ Returns("matches_all")
  /\ Len(out.result) = 2
  /\ out.result[1] /= out.result[2]

\* the pairs (record index, matcher index), counted from 0, whose matcher
\* matches the record
TrueCells(values, matchers) ==
  {p \in (0..(Len(values) - 1)) \X (0..(Len(matchers) - 1)) :
     MatchesOf(matchers[p[2] + 1], values[p[1] + 1])}

\* p comes before q by record index, then by matcher index
PairBefore(p, q) == p[1] < q[1] \/ (p[1] = q[1] /\ p[2] < q[2])

\* C26: sequential evaluate_matrix returns exactly the pairs (i, j) with
\* matchers[j].matches(records[i]), each once, by ascending record index
\* and within a record by ascending matcher index; they are the true cells
\* of evaluate_matrix_full on the same inputs.
C26_SequentialMatrixOrder ==
  Returns("evaluate_matrix") =>
    /\ Elements(out.result) = TrueCells(out.args.values, out.args.matchers)
    /\ \A k, l \in 1..Len(out.result) :
          k < l => PairBefore(out.result[k], out.result[l])
    /\ Elements(out.result)
         = {p \in (0..(Len(out.args.values) - 1))
                    \X (0..(Len(out.args.matchers) - 1)) :
              evaluate_matrix_full(out.args.values,
                                   out.args.matchers)[p[1] + 1][p[2] + 1]}

\* evaluate_matrix has returned pairs of two records, two of them of one
\* record, and has left a cell out
C26_Witness ==
  /\ Returns("evaluate_matrix")
  /\ Len(out.result) >= 3
  /\ Len(out.result) < Len(out.args.values) * Len(out.args.matchers)
  /\ out.result[1][1] = out.result[2][1]
  /\ out.result[1][1] /= out.result[Len(out.result)][1]

\* C27: first_matching returns, for each record that some matcher matches,
\* the one pair (i, j) with j the smallest index of a matcher that matches
\* it, no pair for a record no matcher matches, and the pairs by ascending
\* record index.
C27_FirstMatching ==
  Returns("first_matching") =>
    /\ \A k, l \in 1..Len(out.result) :
          k < l => out.result[k][1] < out.result[l][1]
    /\ \A k \in 1..Len(out.result) :
          /\ out.result[k] \in TrueCells(out.args.values, out.args.matchers)
          /\ \A p \in TrueCells(out.args.values, out.args.matchers) :
                p[1] = out.result[k][1] => out.result[k][2] <= p[2]
    /\ \A p \in TrueCells(out.args.values, out.args.matchers) :
          \E k \in 1..Len(out.result) : out.result[k][1] = p[1]

\* first_matching has returned a pair whose matcher is not the first of the
\* slice and is followed by another matcher that matches the record too
C27_Witness ==
  /\ Returns("first_matching")
  /\ \E k \in 1..Len(out.result) :
        /\ out.result[k][2] >= 1
        /\ \E p \in TrueCells(out.args.values, out.args.matchers) :
              p[1] = out.result[k][1] /\ p[2] > out.result[k][2]

\* first_matching has returned a pair for the second record and none for
\* the first
C27_NoneWitness ==
  /\ Returns("first_matching")
  /\ Len(out.args.values) = 2
  /\ Len(out.args.matchers) >= 1
  /\ Len(out.result) = 1
  /\ out.result[1][1] = 1

\* the positions of the matchers that match a value
MatchingPositions(value, matchers) ==
  {j \in 1..Len(matchers) : MatchesOf(matchers[j], value)}

\* C28: for one record and M matchers, matching_indices is the strictly
\* ascending list of exactly the indices of the matchers that match,
\* matching returns the matchers at those indices in that order,
\* count_matching is the length of that list, any_matches is true iff the
\* count is above 0 and all_match is true iff the count is M; with no
\* matchers any_matches is false and all_match is true.
C28_SingleRecordFunctionsAgree ==
  /\ Returns("matching_indices") =>
       /\ \A k, l \in 1..Len(out.result) :
             k < l => out.result[k] < out.result[l]
       /\ Elements(out.result)
            = {j - 1 : j \in MatchingPositions(out.args.value, out.args.matchers)}
  /\ Returns("matching") =>
       /\ Len(out.result)
            = Len(matching_indices(out.args.value, out.args.matchers))
       /\ \A k \in 1..Len(out.result) :
             out.result[k]
               = out.args.matchers[
                   matching_indices(out.args.value,
                                    out.args.matchers)[k] + 1]
  /\ Returns("count_matching") =>
       /\ out.result
            = Len(matching_indices(out.args.value, out.args.matchers))
       /\ out.result
            = Cardinality(MatchingPositions(out.args.value, out.args.matchers))
  /\ Returns("any_matches") =>
       /\ out.result
            = (count_matching(out.args.value, out.args.matchers) > 0)
       /\ Len(out.args.matchers) = 0 => ~out.result
  /\ Returns("all_match") =>
       /\ out.result
            = (count_matching(out.args.value, out.args.matchers)
                 = Len(out.args.matchers))
       /\ Len(out.args.matchers) = 0 => out.result

\* matching has returned the first and the third of three matchers
C28_Witness ==
  /\ Returns("matching")
  /\ Len(out.args.matchers) = 3
  /\ Len(out.result) = 2
  /\ out.result[1] = out.args.matchers[1]
  /\ out.result[2] = out.args.matchers[3]
  /\ out.args.matchers[2] \notin Elements(out.result)

\* matching_indices has returned the indices 0 and 2
C28_IndicesWitness ==
  /\ Returns("matching_indices")
  /\ out.result = <<0, 2>>

\* with no matchers all_match has returned true
C28_EmptyWitness ==
  /\ Returns("all_match")
  /\ Len(out.args.matchers) = 0
  /\ out.result

\* any_matches and all_match have disagreed on one record
C28_AnyNotAllWitness ==
  /\ Returns("all_match")
  /\ ~out.result
  /\ any_matches(out.args.value, out.args.matchers)

=============================================================================
